---- MODULE Spec2Model ----
(***************************************************************************)
(* ReVita / RehabAI: the backend store (src/backend/main.py) and the       *)
(* rule engines it calls (src/ml/rehab_engine.py, src/ml/model.py,         *)
(* src/ml/ai_features.py).                                                 *)
(*                                                                         *)
(* Conventions                                                             *)
(*   - fever is a float in the code; here it is an integer number of       *)
(*     tenths of a degree, so the literal 100.4 is 1004 and 98.6 is 986.   *)
(*   - pain_score and mobility are Python ints (pydantic `int`, no range   *)
(*     validation), so every score below is integer valued and             *)
(*     round(score, 1) returns the value it is given.                      *)
(*   - a dict is a function on its keys; d.get(k, default) is Get.         *)
(*   - wall-clock values (date, timestamp, an alert's timestamp and its    *)
(*     message text, which is fixed by type and patient name) are not      *)
(*     part of the state; all requests are made on the day Today, so       *)
(*     that days_post_surgery is fixed by the patient's surgery_date.      *)
(*   - the functions of src/ml/ai_features.py compute in IEEE-754 doubles; *)
(*     where every value is a whole number of tenths the model computes in *)
(*     tenths, and where a double falls on the other side of a comparison  *)
(*     or of a whole number than the exact value, the model gives the      *)
(*     double's outcome (DoubleShortOfTwo, DoubleOverOne,                  *)
(*     DoubleBelowWhole).                                                  *)
(*                                                                         *)
(* The specifications share the variables:                                 *)
(*   Spec      the request handlers, one request at a time;                *)
(*   SpecFn    get_recovery_score and check_alerts applied to arbitrary    *)
(*             log lists;                                                  *)
(*   SpecConc  two submit_daily_log requests running in parallel threads,  *)
(*             interleaved at their load_db / append / save_db steps.      *)
(*   SpecRisk  calculate_complication_probability on arbitrary dicts;      *)
(*   SpecPain  analyze_pain_pattern on a growing history;                  *)
(*   SpecDays  predict_recovery_days on arbitrary arguments;               *)
(*   SpecTip   get_daily_tip on arbitrary arguments;                       *)
(*   SpecPlan  get_rehab_plan and get_recovery_score called in any order   *)
(*             on the module-level REHAB_PLANS table;                      *)
(*   SpecEnc   the feature row predict_risk builds from a dict;            *)
(*   SpecLabel the label rule of generate_dataset on arbitrary rows;       *)
(*   SpecPredict the dict predict_risk returns for the forest's estimates; *)
(*   SpecBoot  predict_risk calls of two threads on risk_model.pkl,        *)
(*             interleaved at the steps of load_model / train_and_save;    *)
(*   SpecAi    the /ai endpoints between registrations and daily reports.  *)
(***************************************************************************)
EXTENDS Integers, Sequences, FiniteSets, TLC

VARIABLES
    db,          \* the content of DB_FILE: [patients, logs, alerts]
    call,        \* the request being answered: [op, patient_id]
    resp,        \* the response of that request
    arg_logs,    \* SpecFn: the `logs` list passed to the pure functions
    ret_score,   \* SpecFn: get_recovery_score(arg_logs)
    ret_alerts,  \* SpecFn: risk_index -> check_alerts(arg_logs, patient, risk)
    pc,          \* SpecConc: thread -> position in submit_daily_log
    wreq,        \* SpecConc: thread -> its request (log, classifier output)
    wdb,         \* SpecConc: thread -> its local `db` dict
    wresp,       \* SpecConc: thread -> its response
    cp_features, \* SpecRisk: the dict passed to calculate_complication_probability
    cp_ret,      \* SpecRisk: what it returned
    pain_logs,   \* SpecPain: the `logs` list passed to analyze_pain_pattern
    pain_ret,    \* SpecPain: what it returned
    rd_args,     \* SpecDays: the arguments of predict_recovery_days
    rd_ret,      \* SpecDays: what it returned
    tip_args,    \* SpecTip: the arguments of get_daily_tip
    tip_ret,     \* SpecTip: what it returned
    REHAB_PLANS, \* SpecPlan: the module-level table of rehab_engine.py
    caller_logs, \* SpecPlan: the caller's list object handed to get_recovery_score
    pure_call,   \* SpecPlan: the last call made: [fn, args]
    pure_ret,    \* SpecPlan: what it returned
    enc_features, \* SpecEnc: the dict passed to predict_risk
    enc_ret,     \* SpecEnc: the encoded row, or the exception raised
    lab_row,     \* SpecLabel: one row of features drawn in generate_dataset
    lab_risk,    \* SpecLabel: the label the rule cascade gives the row
    rf_proba,    \* SpecPredict: model.predict_proba(X)[0], in parts of rf_den
    rf_den,      \* SpecPredict: the denominator of rf_proba
    rf_ret,      \* SpecPredict: what predict_risk returned
    model_file,  \* SpecBoot: the state of risk_model.pkl on disk
    boot_pc,     \* SpecBoot: thread -> position in predict_risk / load_model
    boot_ret,    \* SpecBoot: thread -> how its last predict_risk call ended
    trained,     \* SpecBoot: the number of train_and_save executions begun
    boot_calls   \* SpecBoot: the number of predict_risk calls begun

vars == <<db, call, resp, arg_logs, ret_score, ret_alerts, pc, wreq, wdb, wresp,
          cp_features, cp_ret, pain_logs, pain_ret, rd_args, rd_ret,
          tip_args, tip_ret, REHAB_PLANS, caller_logs, pure_call, pure_ret,
          enc_features, enc_ret, lab_row, lab_risk, rf_proba, rf_den, rf_ret,
          model_file, boot_pc, boot_ret, trained, boot_calls>>

sysVars  == <<db, call, resp>>
fnVars   == <<arg_logs, ret_score, ret_alerts>>
concVars == <<pc, wreq, wdb, wresp>>
riskVars == <<cp_features, cp_ret>>
painVars == <<pain_logs, pain_ret>>
daysVars == <<rd_args, rd_ret>>
tipVars  == <<tip_args, tip_ret>>
planVars == <<REHAB_PLANS, caller_logs, pure_call, pure_ret>>
encVars  == <<enc_features, enc_ret>>
labVars  == <<lab_row, lab_risk>>
predVars == <<rf_proba, rf_den, rf_ret>>
bootVars == <<model_file, boot_pc, boot_ret, trained, boot_calls>>

\* the variables of the ai_features / rehab_engine / model harnesses
aiVars   == <<riskVars, painVars, daysVars, tipVars, planVars, encVars, labVars,
              predVars, bootVars>>
\* the variables of the three specifications above
appVars  == <<sysVars, fnVars, concVars>>

----------------------------------------------------------------------------
(* Bounds *)

\* total number of daily reports stored, over all patients (Spec)
MaxReports == 3

\* length of the log list handed to the pure functions (SpecFn)
MaxLen == 3

\* number of daily reports in the history handed to analyze_pain_pattern
\* (SpecPain); above the 7 of its window
MaxDays == 8

\* number of predict_risk calls begun by the worker threads (SpecBoot)
MaxCalls == 3

----------------------------------------------------------------------------
(* Python helpers *)

PyNone == "<None>"

EmptyDict == [k \in {} |-> 0]

Get(d, k, default) == IF k \in DOMAIN d THEN d[k] ELSE default

Min(a, b) == IF a < b THEN a ELSE b

Max(a, b) == IF a > b THEN a ELSE b

Last(s) == s[Len(s)]

----------------------------------------------------------------------------
(* src/ml/rehab_engine.py: get_recovery_score *)

\* get_recovery_score without the final min(max(., 0), 100)
get_recovery_score_unclamped(logs) ==
    IF logs = <<>> THEN 0
    ELSE IF Len(logs) = 1
    THEN 50 + (10 - Get(logs[1], "pain_score", 5)) * 3 + Get(logs[1], "mobility", 5) * 2
    ELSE 40 + (Get(logs[1], "pain_score", 5) - Get(Last(logs), "pain_score", 5)) * 5
            + (Get(Last(logs), "mobility", 5) - Get(logs[1], "mobility", 5)) * 3
            - (IF Get(Last(logs), "fever", 986) >= 1004 THEN 15 ELSE 0)
            - (IF Get(Last(logs), "swelling", PyNone) \in {"Moderate", "Severe"} THEN 10 ELSE 0)

\* get_recovery_score with the fever penalty of 15 applied from 101.5 degrees on
get_recovery_score_fever1015(logs) ==
    IF logs = <<>> THEN 0
    ELSE IF Len(logs) = 1
    THEN Min(Max(50 + (10 - Get(logs[1], "pain_score", 5)) * 3
                    + Get(logs[1], "mobility", 5) * 2, 0), 100)
    ELSE Min(Max(40 + (Get(logs[1], "pain_score", 5) - Get(Last(logs), "pain_score", 5)) * 5
                    + (Get(Last(logs), "mobility", 5) - Get(logs[1], "mobility", 5)) * 3
                    - (IF Get(Last(logs), "fever", 986) >= 1015 THEN 15 ELSE 0)
                    - (IF Get(Last(logs), "swelling", PyNone) \in {"Moderate", "Severe"}
                       THEN 10 ELSE 0), 0), 100)

\* get_recovery_score comparing the latest entry with the one before it
get_recovery_score_previous(logs) ==
    IF logs = <<>> THEN 0
    ELSE IF Len(logs) = 1
    THEN Min(Max(50 + (10 - Get(logs[1], "pain_score", 5)) * 3
                    + Get(logs[1], "mobility", 5) * 2, 0), 100)
    ELSE LET prev == logs[Len(logs) - 1]
         IN  Min(Max(40 + (Get(prev, "pain_score", 5) - Get(Last(logs), "pain_score", 5)) * 5
                    + (Get(Last(logs), "mobility", 5) - Get(prev, "mobility", 5)) * 3
                    - (IF Get(Last(logs), "fever", 986) >= 1004 THEN 15 ELSE 0)
                    - (IF Get(Last(logs), "swelling", PyNone) \in {"Moderate", "Severe"}
                       THEN 10 ELSE 0), 0), 100)

get_recovery_score(logs) ==
    IF logs = <<>>
    THEN 0
    ELSE IF Len(logs) = 1
    THEN LET entry == logs[1]
             score == 50 + (10 - Get(entry, "pain_score", 5)) * 3
                         + Get(entry, "mobility", 5) * 2
         IN  Min(Max(score, 0), 100)
    ELSE LET first  == logs[1]
             latest == Last(logs)
             pain_improvement ==
                 Get(first, "pain_score", 5) - Get(latest, "pain_score", 5)
             mobility_improvement ==
                 Get(latest, "mobility", 5) - Get(first, "mobility", 5)
             score0 == 40 + pain_improvement * 5 + mobility_improvement * 3
             score1 == IF Get(latest, "fever", 986) >= 1004
                       THEN score0 - 15 ELSE score0
             score2 == IF Get(latest, "swelling", PyNone) \in {"Moderate", "Severe"}
                       THEN score1 - 10 ELSE score1
         IN  Min(Max(score2, 0), 100)

----------------------------------------------------------------------------
(* src/backend/main.py: check_alerts *)

AlertTypes == {"CRITICAL", "ESCALATION", "FEVER_SWELLING"}

\* one alert dict: "type" and "patient" (the patient's name)
Alert(type, patient) == [type |-> type, patient |-> patient.name]

\* check_alerts with the pain comparison non-strict
check_alerts_nonstrict(logs, patient, risk_result) ==
    (IF risk_result.risk_index >= 3 THEN <<Alert("CRITICAL", patient)>> ELSE <<>>)
    \o (IF Len(logs) >= 3
           /\ logs[Len(logs) - 2].pain_score <= logs[Len(logs) - 1].pain_score
           /\ logs[Len(logs) - 1].pain_score <= logs[Len(logs)].pain_score
        THEN <<Alert("ESCALATION", patient)>> ELSE <<>>)
    \o (IF Get(IF logs # <<>> THEN Last(logs) ELSE EmptyDict, "fever", 986) >= 1004
           /\ Get(IF logs # <<>> THEN Last(logs) ELSE EmptyDict, "swelling", PyNone)
                  \in {"Moderate", "Severe"}
        THEN <<Alert("FEVER_SWELLING", patient)>> ELSE <<>>)

\* check_alerts with rule 3 accepting only "Severe" swelling
check_alerts_severe_only(logs, patient, risk_result) ==
    (IF risk_result.risk_index >= 3 THEN <<Alert("CRITICAL", patient)>> ELSE <<>>)
    \o (IF Len(logs) >= 3
           /\ logs[Len(logs) - 2].pain_score < logs[Len(logs) - 1].pain_score
           /\ logs[Len(logs) - 1].pain_score < logs[Len(logs)].pain_score
        THEN <<Alert("ESCALATION", patient)>> ELSE <<>>)
    \o (IF Get(IF logs # <<>> THEN Last(logs) ELSE EmptyDict, "fever", 986) >= 1004
           /\ Get(IF logs # <<>> THEN Last(logs) ELSE EmptyDict, "swelling", PyNone)
                  \in {"Severe"}
        THEN <<Alert("FEVER_SWELLING", patient)>> ELSE <<>>)

\* check_alerts with rule 1 firing from risk_index 2 (High) on
check_alerts_from_high(logs, patient, risk_result) ==
    (IF risk_result.risk_index >= 2 THEN <<Alert("CRITICAL", patient)>> ELSE <<>>)
    \o (IF Len(logs) >= 3
           /\ logs[Len(logs) - 2].pain_score < logs[Len(logs) - 1].pain_score
           /\ logs[Len(logs) - 1].pain_score < logs[Len(logs)].pain_score
        THEN <<Alert("ESCALATION", patient)>> ELSE <<>>)
    \o (IF Get(IF logs # <<>> THEN Last(logs) ELSE EmptyDict, "fever", 986) >= 1004
           /\ Get(IF logs # <<>> THEN Last(logs) ELSE EmptyDict, "swelling", PyNone)
                  \in {"Moderate", "Severe"}
        THEN <<Alert("FEVER_SWELLING", patient)>> ELSE <<>>)

\* check_alerts with the three rules chained by elif: the first match wins
check_alerts_elif(logs, patient, risk_result) ==
    IF risk_result.risk_index >= 3
    THEN <<Alert("CRITICAL", patient)>>
    ELSE IF Len(logs) >= 3
            /\ logs[Len(logs) - 2].pain_score < logs[Len(logs) - 1].pain_score
            /\ logs[Len(logs) - 1].pain_score < logs[Len(logs)].pain_score
    THEN <<Alert("ESCALATION", patient)>>
    ELSE IF Get(IF logs # <<>> THEN Last(logs) ELSE EmptyDict, "fever", 986) >= 1004
            /\ Get(IF logs # <<>> THEN Last(logs) ELSE EmptyDict, "swelling", PyNone)
                   \in {"Moderate", "Severe"}
    THEN <<Alert("FEVER_SWELLING", patient)>>
    ELSE <<>>

check_alerts(logs, patient, risk_result) ==
    LET \* Rule 1: Critical risk
        rule1 == IF risk_result.risk_index >= 3
                 THEN <<Alert("CRITICAL", patient)>>
                 ELSE <<>>
        \* Rule 2: pain worsening over the last three entries, logs[-3:]
        last3_pain == [i \in 1..3 |-> logs[Len(logs) - 3 + i].pain_score]
        rule2 == IF Len(logs) >= 3
                    /\ last3_pain[1] < last3_pain[2]
                    /\ last3_pain[2] < last3_pain[3]
                 THEN <<Alert("ESCALATION", patient)>>
                 ELSE <<>>
        \* Rule 3: fever + swelling of the latest entry
        latest == IF logs # <<>> THEN Last(logs) ELSE EmptyDict
        rule3 == IF Get(latest, "fever", 986) >= 1004
                    /\ Get(latest, "swelling", PyNone) \in {"Moderate", "Severe"}
                 THEN <<Alert("FEVER_SWELLING", patient)>>
                 ELSE <<>>
    IN  rule1 \o rule2 \o rule3

----------------------------------------------------------------------------
(* src/ml/model.py: predict_risk *)

RISK_LABELS == [i \in 0..3 |-> CASE i = 0 -> "Low"
                                 [] i = 1 -> "Moderate"
                                 [] i = 2 -> "High"
                                 [] i = 3 -> "Critical"]

\* a predict_risk whose risk_level is not the label of its risk_index
predict_risk_mislabelled(features, risk_idx) ==
    [risk_level |-> RISK_LABELS[3 - risk_idx], risk_index |-> risk_idx]

\* The class the trained random forest predicts for a feature vector is not
\* determined by the source (np.random training data); risk_idx stands for
\* int(model.predict(X)[0]) and is chosen by the caller's \E.
predict_risk(features, risk_idx) ==
    [risk_level |-> RISK_LABELS[risk_idx], risk_index |-> risk_idx]

----------------------------------------------------------------------------
(* src/ml/rehab_engine.py: REHAB_PLANS and get_rehab_plan                  *)
(* A cell of the table is a dict with the keys exercises, restrictions and *)
(* goals.  The two lists are never read or written item by item, so each   *)
(* is represented by its number of items; goals is the cell's string, with *)
(* its dashes written as "-".  The module-level table is mutable Python    *)
(* state, so it is a variable; this is its content after import.           *)

\* lines 6-163
REHAB_PLANS_literal ==
    ("Minor Surgery" :>
        [Low      |-> [exercises |-> 4, restrictions |-> 2,
                       goals |-> "Regain baseline mobility within 1-2 weeks"],
         Moderate |-> [exercises |-> 3, restrictions |-> 3,
                       goals |-> "Reduce inflammation before progressing"],
         High     |-> [exercises |-> 1, restrictions |-> 2,
                       goals |-> "Stabilize condition - contact your doctor"],
         Critical |-> [exercises |-> 1, restrictions |-> 1,
                       goals |-> "Emergency evaluation needed"]]) @@
    ("Orthopedic Surgery" :>
        [Low      |-> [exercises |-> 5, restrictions |-> 3,
                       goals |-> "Restore joint range of motion and strength"],
         Moderate |-> [exercises |-> 3, restrictions |-> 3,
                       goals |-> "Control pain and swelling before progressing"],
         High     |-> [exercises |-> 1, restrictions |-> 2,
                       goals |-> "Medical review required within 24 hours"],
         Critical |-> [exercises |-> 1, restrictions |-> 1,
                       goals |-> "Possible complication - do not delay"]]) @@
    ("General Discharge" :>
        [Low      |-> [exercises |-> 4, restrictions |-> 3,
                       goals |-> "Gradual return to daily activities over 2-4 weeks"],
         Moderate |-> [exercises |-> 2, restrictions |-> 3,
                       goals |-> "Stabilize and monitor closely"],
         High     |-> [exercises |-> 1, restrictions |-> 1,
                       goals |-> "Urgent medical review"],
         Critical |-> [exercises |-> 1, restrictions |-> 1,
                       goals |-> "Emergency evaluation"]]) @@
    ("Injury Recovery" :>
        [Low      |-> [exercises |-> 4, restrictions |-> 3,
                       goals |-> "Full functional recovery in 3-8 weeks"],
         Moderate |-> [exercises |-> 3, restrictions |-> 2,
                       goals |-> "Reduce acute inflammation"],
         High     |-> [exercises |-> 1, restrictions |-> 1,
                       goals |-> "Rule out fracture or tendon damage"],
         Critical |-> [exercises |-> 1, restrictions |-> 1,
                       goals |-> "Emergency assessment required"]]) @@
    ("Stroke Rehab" :>
        [Low      |-> [exercises |-> 5, restrictions |-> 3,
                       goals |-> "Neuroplasticity training - rebuild motor pathways"],
         Moderate |-> [exercises |-> 3, restrictions |-> 2,
                       goals |-> "Stabilize before progressing rehab"],
         High     |-> [exercises |-> 1, restrictions |-> 1,
                       goals |-> "Reassess neurological status"],
         Critical |-> [exercises |-> 1, restrictions |-> 1,
                       goals |-> "Immediate emergency evaluation"]])

\* lines 171-184: the phase and its note by recovery day
recovery_phase_exclusive(days_post_surgery) ==
    IF days_post_surgery < 7
    THEN [phase |-> "Acute Phase (Days 1-7)",
          note |-> "Focus on rest, pain management, and basic mobility."]
    ELSE IF days_post_surgery < 21
    THEN [phase |-> "Sub-Acute Phase (Days 8-21)",
          note |-> "Begin progressive strengthening. Gentle exercises allowed."]
    ELSE IF days_post_surgery < 42
    THEN [phase |-> "Functional Recovery (Days 22-42)",
          note |-> "Increase activity gradually. Focus on functional tasks."]
    ELSE [phase |-> "Return to Activity (Day 42+)",
          note |-> "Progressive loading. Prepare for full daily activities."]

recovery_phase(days_post_surgery) ==
    IF days_post_surgery <= 7
    THEN [phase |-> "Acute Phase (Days 1-7)",
          note |-> "Focus on rest, pain management, and basic mobility."]
    ELSE IF days_post_surgery <= 21
    THEN [phase |-> "Sub-Acute Phase (Days 8-21)",
          note |-> "Begin progressive strengthening. Gentle exercises allowed."]
    ELSE IF days_post_surgery <= 42
    THEN [phase |-> "Functional Recovery (Days 22-42)",
          note |-> "Increase activity gradually. Focus on functional tasks."]
    ELSE [phase |-> "Return to Activity (Day 42+)",
          note |-> "Progressive loading. Prepare for full daily activities."]

\* lines 166-188, called with the table in state `table`: the dict returned
\* and the table the call leaves behind.  base_plan is a .copy() of the
\* cell, so the two assignments of lines 186-187 write to the copy.
get_rehab_plan_in_place(table, surgery_type, risk_level, days_post_surgery) ==
    LET row       == IF surgery_type \in DOMAIN table
                     THEN surgery_type ELSE "General Discharge"
        plans     == table[row]
        column    == IF risk_level \in DOMAIN plans THEN risk_level ELSE "Low"
        base_plan == plans[column]
        p         == recovery_phase(days_post_surgery)
        written   == ("recovery_phase" :> p.phase) @@ ("phase_note" :> p.note)
                     @@ base_plan
    IN  [ret |-> written,
         REHAB_PLANS |-> [table EXCEPT ![row] = (column :> written) @@ @]]

get_rehab_plan(table, surgery_type, risk_level, days_post_surgery) ==
    LET row       == IF surgery_type \in DOMAIN table
                     THEN surgery_type ELSE "General Discharge"
        plans     == table[row]
        column    == IF risk_level \in DOMAIN plans THEN risk_level ELSE "Low"
        base_plan == plans[column]
        p         == recovery_phase(days_post_surgery)
        written   == ("recovery_phase" :> p.phase) @@ ("phase_note" :> p.note)
                     @@ base_plan
    IN  [ret |-> written,
         REHAB_PLANS |-> table]

----------------------------------------------------------------------------
(* src/backend/main.py: the store and the request handlers *)

\* load_db() when DB_FILE does not exist
EmptyDb == [patients |-> EmptyDict, logs |-> EmptyDict, alerts |-> <<>>]

\* str(uuid.uuid4())[:8]: the ids a registration can draw
PIDs == {"0a1b2c3d", "4e5f6a7b"}

\* a patient_id no registration has returned
UnknownPid == "ffffffff"

\* Patient request bodies (the fields the handlers read); PatientOf[pid] is
\* the body of the registration that is answered with pid
PatientOf ==
    [p \in PIDs |->
        IF p = "0a1b2c3d"
        THEN [name |-> "Ann", surgery_type |-> "Orthopedic Surgery", surgery_date |-> 27]
        ELSE [name |-> "Bob", surgery_type |-> "Stroke Rehab", surgery_date |-> 0]]

\* datetime.now() as a day number: all requests are made on one day, 3 days
\* after Ann's surgery and 30 days after Bob's; a surgery_date is the day
\* number of the date string
Today == 30

\* surgery_date = strptime(patient["surgery_date"]);
\* days_post = (datetime.now() - surgery_date).days
days_post_of(patient) == Today - patient.surgery_date

DailyLog(p, ps, fv, sw) ==
    [patient_id |-> p, pain_score |-> ps, swelling |-> sw, fever |-> fv,
     mobility |-> 5, wound_status |-> "Clean/Healing", medication_adherence |-> 10,
     pain_trend |-> "Stable", notes |-> ""]

\* DailyLog request bodies: for each id a registration can return, three
\* pain scores with and without the fever + swelling combination; and one
\* body for an id that is never registered
DailyLogs ==
    { DailyLog(p, ps, fs[1], fs[2]) :
        p \in PIDs, ps \in {3, 5, 7}, fs \in {<<986, "None">>, <<1004, "Severe">>} }
    \cup { DailyLog(UnknownPid, 5, 986, "None") }

\* the classes the classifier answers with in Spec and SpecConc
RiskClasses == {2, 3}

\* log_entry = {**log.dict(), ..., "risk_level": ..., "risk_index": ...}
log_entry(log, risk_result) ==
    [patient_id |-> log.patient_id, pain_score |-> log.pain_score,
     swelling |-> log.swelling, fever |-> log.fever, mobility |-> log.mobility,
     wound_status |-> log.wound_status,
     medication_adherence |-> log.medication_adherence,
     pain_trend |-> log.pain_trend, notes |-> log.notes,
     risk_level |-> risk_result.risk_level, risk_index |-> risk_result.risk_index]

\* the features dict submit_daily_log hands to predict_risk
features_of(log, patient) ==
    [pain_score |-> log.pain_score, swelling |-> log.swelling, fever |-> log.fever,
     mobility |-> log.mobility, wound_status |-> log.wound_status,
     medication_adherence |-> log.medication_adherence,
     surgery_type |-> patient.surgery_type, pain_trend |-> log.pain_trend]

\* db["logs"][pid].append(log_entry), putting the entry first instead of last
append_log_front(logs, entry) == <<entry>> \o logs

\* db["logs"][log.patient_id].append(log_entry)
append_log(logs, entry) == Append(logs, entry)

\* appending only the alerts whose (type, patient) is not stored yet
append_alerts_dedup(stored, alerts) ==
    stored \o SelectSeq(alerts, LAMBDA a : \A i \in 1..Len(stored) : stored[i] # a)

\* for a in alerts: db["alerts"].append(a)
append_alerts(stored, alerts) == stored \o alerts

\* the local db dict of submit_daily_log after its two appends, for a
\* registered log.patient_id
db_after_submit(d, log, risk_result) ==
    LET pid     == log.patient_id
        patient == d.patients[pid]
        logs1   == append_log(d.logs[pid], log_entry(log, risk_result))
        alerts  == check_alerts(logs1, patient, risk_result)
    IN  [d EXCEPT !.logs[pid] = logs1,
                  !.alerts = append_alerts(d.alerts, alerts)]

\* the response body of a successful submit_daily_log, evaluating the score
\* and the alerts on the history as it was when the request came in
submit_response_before_append(d1, log, risk_result) ==
    LET patient == d1.patients[log.patient_id]
        logs0   == SubSeq(d1.logs[log.patient_id], 1, Len(d1.logs[log.patient_id]) - 1)
    IN  [status |-> 200,
         risk |-> risk_result,
         rehab_plan |-> get_rehab_plan(REHAB_PLANS, patient.surgery_type,
                                       risk_result.risk_level, days_post_of(patient)).ret,
         recovery_score |-> get_recovery_score(logs0),
         days_post_surgery |-> days_post_of(patient),
         alerts_triggered |-> check_alerts(logs0, patient, risk_result)]

\* the response body of a successful submit_daily_log; d1 is the handler's
\* db dict after its appends
submit_response(d1, log, risk_result) ==
    LET patient == d1.patients[log.patient_id]
    IN  [status |-> 200,
         risk |-> risk_result,
         rehab_plan |-> get_rehab_plan(REHAB_PLANS, patient.surgery_type,
                                       risk_result.risk_level, days_post_of(patient)).ret,
         recovery_score |-> get_recovery_score(d1.logs[log.patient_id]),
         days_post_surgery |-> days_post_of(patient),
         alerts_triggered |->
             check_alerts(d1.logs[log.patient_id], patient, risk_result)]

TotalReports(d) ==
    LET RECURSIVE Sum(_)
        Sum(S) == IF S = {} THEN 0
                  ELSE LET p == CHOOSE q \in S : TRUE
                       IN  Len(d.logs[p]) + Sum(S \ {p})
    IN  Sum(DOMAIN d.logs)

\* a registration that stores the patient and creates no log list
register_patient_no_log(pid, patient) ==
    /\ pid \notin DOMAIN db.patients
    /\ db' = [db EXCEPT !.patients = (pid :> ([id |-> pid] @@ patient)) @@ @]
    /\ call' = [op |-> "register_patient", patient_id |-> pid]
    /\ resp' = [status |-> 200, patient_id |-> pid]
    /\ UNCHANGED <<fnVars, concVars, aiVars>>

\* POST /patient/register.  uuid4 ids are taken to be unique: pid is an id
\* not handed out before.
register_patient(pid, patient) ==
    /\ pid \notin DOMAIN db.patients
    /\ db' = [db EXCEPT !.patients = (pid :> ([id |-> pid] @@ patient)) @@ @,
                        !.logs = (pid :> <<>>) @@ @]
    /\ call' = [op |-> "register_patient", patient_id |-> pid]
    /\ resp' = [status |-> 200, patient_id |-> pid]
    /\ UNCHANGED <<fnVars, concVars, aiVars>>

\* a handler that answers 404 for an unknown patient_id but has stored the
\* report under that id before
submit_daily_log_unchecked(log, risk_idx) ==
    /\ call' = [op |-> "submit_daily_log", patient_id |-> log.patient_id]
    /\ IF log.patient_id \notin DOMAIN db.patients
       THEN /\ resp' = [status |-> 404, detail |-> "Patient not found"]
            /\ TotalReports(db) < MaxReports
            /\ db' = [db EXCEPT !.logs =
                         (log.patient_id :>
                             Append(Get(db.logs, log.patient_id, <<>>),
                                    log_entry(log, predict_risk(EmptyDict, risk_idx))))
                         @@ @]
       ELSE /\ TotalReports(db) < MaxReports
            /\ LET patient     == db.patients[log.patient_id]
                   risk_result == predict_risk(features_of(log, patient), risk_idx)
                   db1         == db_after_submit(db, log, risk_result)
               IN  /\ db' = db1
                   /\ resp' = submit_response(db1, log, risk_result)
    /\ UNCHANGED <<fnVars, concVars, aiVars>>

\* POST /log/daily
submit_daily_log(log, risk_idx) ==
    /\ call' = [op |-> "submit_daily_log", patient_id |-> log.patient_id]
    /\ IF log.patient_id \notin DOMAIN db.patients
       THEN /\ resp' = [status |-> 404, detail |-> "Patient not found"]
            /\ UNCHANGED db
       ELSE /\ TotalReports(db) < MaxReports
            /\ LET patient     == db.patients[log.patient_id]
                   risk_result == predict_risk(features_of(log, patient), risk_idx)
                   db1         == db_after_submit(db, log, risk_result)
               IN  /\ db' = db1
                   /\ resp' = submit_response(db1, log, risk_result)
    /\ UNCHANGED <<fnVars, concVars, aiVars>>

----------------------------------------------------------------------------
(* SpecFn: the pure functions on arbitrary log lists *)

\* log entries: the keys get_recovery_score and check_alerts read, with
\* pain_score and mobility also outside 0..10, and fever on both sides of
\* 100.4 with swelling below and in {Moderate, Severe}
FnEntries ==
    { [pain_score |-> ps, mobility |-> mb, fever |-> fs[1], swelling |-> fs[2]] :
        ps \in {-5, 4, 30}, mb \in {0, 10},
        fs \in {<<1003, "Severe">>, <<1004, "Mild">>, <<1004, "Moderate">>} }

FnPatient == [name |-> "Ann", surgery_type |-> "Orthopedic Surgery"]

FnApply(logs) ==
    /\ arg_logs' = logs
    /\ ret_score' = get_recovery_score(logs)
    /\ ret_alerts' = [ri \in 0..3 |->
                         check_alerts(logs, FnPatient, predict_risk(EmptyDict, ri))]
    /\ UNCHANGED <<sysVars, concVars, aiVars>>

\* a new latest entry
FnAppend(e) ==
    /\ Len(arg_logs) < MaxLen
    /\ FnApply(Append(arg_logs, e))

\* a new intermediate entry at position i
FnInsert(i, e) ==
    /\ Len(arg_logs) < MaxLen
    /\ i \in 2..Len(arg_logs)
    /\ FnApply(SubSeq(arg_logs, 1, i - 1) \o <<e>> \o SubSeq(arg_logs, i, Len(arg_logs)))

\* the intermediate entry at position i removed
FnRemove(i) ==
    /\ i \in 2..(Len(arg_logs) - 1)
    /\ FnApply(SubSeq(arg_logs, 1, i - 1) \o SubSeq(arg_logs, i + 1, Len(arg_logs)))

\* the intermediate entry at position i reports other pain and mobility
FnChange(i, ps, mb) ==
    /\ i \in 2..(Len(arg_logs) - 1)
    /\ <<arg_logs[i].pain_score, arg_logs[i].mobility>> # <<ps, mb>>
    /\ FnApply([arg_logs EXCEPT ![i].pain_score = ps, ![i].mobility = mb])

----------------------------------------------------------------------------
(* SpecConc: submit_daily_log in two threads (FastAPI runs a `def` handler *)
(* in a thread pool; nothing in the source locks DB_FILE)                  *)

Threads == {1, 2}

\* the patient each thread's request is for: two different patients
ConcPid == [t \in Threads |-> IF t = 1 THEN "0a1b2c3d" ELSE "4e5f6a7b"]

\* the store after both patients have registered
ConcDb ==
    [patients |-> [p \in PIDs |-> [id |-> p] @@ PatientOf[p]],
     logs |-> [p \in PIDs |-> <<>>],
     alerts |-> <<>>]

NoRequest == [log |-> EmptyDict, risk_idx |-> 0]

\* line 292: db = load_db()
ConcLoad(t, log, risk_idx) ==
    /\ pc[t] = "start"
    /\ log.patient_id = ConcPid[t]
    /\ wreq' = [wreq EXCEPT ![t] = [log |-> log, risk_idx |-> risk_idx]]
    /\ wdb' = [wdb EXCEPT ![t] = db]
    /\ pc' = [pc EXCEPT ![t] = "loaded"]
    /\ UNCHANGED <<sysVars, fnVars, wresp, aiVars>>

\* lines 293-331: the 404 check, predict_risk, and the two appends, all on
\* the thread's own db dict
ConcAppend(t) ==
    /\ pc[t] = "loaded"
    /\ LET log == wreq[t].log
       IN  IF log.patient_id \notin DOMAIN wdb[t].patients
           THEN /\ wresp' = [wresp EXCEPT ![t] =
                                [status |-> 404, detail |-> "Patient not found"]]
                /\ pc' = [pc EXCEPT ![t] = "done"]
                /\ UNCHANGED wdb
           ELSE LET patient     == wdb[t].patients[log.patient_id]
                    risk_result == predict_risk(features_of(log, patient),
                                                wreq[t].risk_idx)
                IN  /\ wdb' = [wdb EXCEPT ![t] = db_after_submit(@, log, risk_result)]
                    /\ pc' = [pc EXCEPT ![t] = "appended"]
                    /\ UNCHANGED wresp
    /\ UNCHANGED <<sysVars, fnVars, wreq, aiVars>>

\* lines 333-344: save_db(db) writes the thread's whole dict over DB_FILE,
\* then the response is built from that dict
ConcSave(t) ==
    /\ pc[t] = "appended"
    /\ db' = wdb[t]
    /\ LET log         == wreq[t].log
           patient     == wdb[t].patients[log.patient_id]
           risk_result == predict_risk(features_of(log, patient), wreq[t].risk_idx)
       IN  wresp' = [wresp EXCEPT ![t] = submit_response(wdb[t], log, risk_result)]
    /\ pc' = [pc EXCEPT ![t] = "done"]
    /\ UNCHANGED <<call, resp, fnVars, wreq, wdb, aiVars>>

ConcInit ==
    /\ pc = [t \in Threads |-> "start"]
    /\ wreq = [t \in Threads |-> NoRequest]
    /\ wdb = [t \in Threads |-> EmptyDb]
    /\ wresp = [t \in Threads |-> [status |-> 0]]

----------------------------------------------------------------------------
(* src/ml/ai_features.py: calculate_complication_probability               *)
(* The score is kept in tenths of a point: (pain/10)*25 is 25*pain tenths  *)
(* and (adherence/10)*8 is 8*adherence tenths, so the score is a whole     *)
(* number of tenths and round(score, 1) returns it.  color, advice and     *)
(* next_48hr_risk are fixed by category and probability and left out.      *)

\* lines 87-121: the weighted sum before clamping, in tenths
complication_score_mobility3(features) ==
    LET pain      == Get(features, "pain_score", 0)
        fever     == Get(features, "fever", 986)
        swelling  == Get(features, "swelling", "None")
        wound     == Get(features, "wound_status", "Clean/Healing")
        trend     == Get(features, "pain_trend", "Stable")
        mobility  == Get(features, "mobility", 5)
        adherence == Get(features, "medication_adherence", 10)
        fever_pts == IF fever >= 1030 THEN 25
                     ELSE IF fever >= 1015 THEN 20
                     ELSE IF fever >= 1004 THEN 12
                     ELSE IF fever >= 995 THEN 5
                     ELSE 0
        sw        == [None |-> 0, Mild |-> 5, Moderate |-> 10, Severe |-> 15]
        wnd       == ("Clean/Healing" :> 0) @@ ("Redness" :> 8) @@
                     ("Discharge/Open" :> 15)
        trend_pts == IF trend = "Worsening" THEN 10
                     ELSE IF trend = "Stable" THEN 2
                     ELSE 0
        mobility_pts == IF mobility <= 3 THEN 5 ELSE 0
    IN  25 * pain
        + 10 * (fever_pts + Get(sw, swelling, 0)
                + Get(wnd, wound, 0) + trend_pts + mobility_pts)
        - 8 * adherence

complication_score(features) ==
    LET pain      == Get(features, "pain_score", 0)
        fever     == Get(features, "fever", 986)
        swelling  == Get(features, "swelling", "None")
        wound     == Get(features, "wound_status", "Clean/Healing")
        trend     == Get(features, "pain_trend", "Stable")
        mobility  == Get(features, "mobility", 5)
        adherence == Get(features, "medication_adherence", 10)
        fever_pts == IF fever >= 1030 THEN 25
                     ELSE IF fever >= 1015 THEN 20
                     ELSE IF fever >= 1004 THEN 12
                     ELSE IF fever >= 995 THEN 5
                     ELSE 0
        sw        == [None |-> 0, Mild |-> 5, Moderate |-> 10, Severe |-> 15]
        wnd       == ("Clean/Healing" :> 0) @@ ("Redness" :> 8) @@
                     ("Discharge/Open" :> 15)
        trend_pts == IF trend = "Worsening" THEN 10
                     ELSE IF trend = "Stable" THEN 2
                     ELSE 0
        mobility_pts == IF mobility <= 2 THEN 5 ELSE 0
    IN  25 * pain
        + 10 * (fever_pts + Get(sw, swelling, 0)
                + Get(wnd, wound, 0) + trend_pts + mobility_pts)
        - 8 * adherence

\* lines 125-140: the if/elif chain on the clamped score (tenths)
complication_category_inclusive(score) ==
    IF score <= 200 THEN "Very Low"
    ELSE IF score <= 400 THEN "Low"
    ELSE IF score <= 600 THEN "Moderate"
    ELSE IF score <= 800 THEN "High"
    ELSE "Critical"

complication_category(score) ==
    IF score < 200 THEN "Very Low"
    ELSE IF score < 400 THEN "Low"
    ELSE IF score < 600 THEN "Moderate"
    ELSE IF score < 800 THEN "High"
    ELSE "Critical"

\* lines 81-153; probability is in tenths of a percent
calculate_complication_probability(features) ==
    LET score == Max(0, Min(1000, complication_score(features)))
    IN  [probability |-> score, category |-> complication_category(score)]

(* SpecRisk: calculate_complication_probability on arbitrary feature dicts *)

CpKeys == {"pain_score", "fever", "swelling", "wound_status", "pain_trend",
           "mobility", "medication_adherence"}

\* values on both sides of every threshold, a swelling and a wound status
\* outside the maps, and a pain_score above 10
CpValues ==
    [pain_score |-> {0, 10, 14},
     fever |-> {986, 994, 995, 1003, 1004, 1014, 1015, 1029, 1030},
     swelling |-> {"None", "Mild", "Moderate", "Severe", "Huge"},
     wound_status |-> {"Clean/Healing", "Redness", "Discharge/Open", "Bleeding"},
     pain_trend |-> {"Improving", "Stable", "Worsening"},
     mobility |-> {2, 3, 8},
     medication_adherence |-> {0, 10}]

CpDicts ==
    { [pain_score |-> ps, fever |-> fv, swelling |-> sw, wound_status |-> ws,
       pain_trend |-> pt, mobility |-> mb, medication_adherence |-> ma] :
        ps \in CpValues.pain_score, fv \in CpValues.fever,
        sw \in CpValues.swelling, ws \in CpValues.wound_status,
        pt \in CpValues.pain_trend, mb \in CpValues.mobility,
        ma \in CpValues.medication_adherence }

CpApply(features) ==
    /\ cp_features' = features
    /\ cp_ret' = calculate_complication_probability(features)
    /\ UNCHANGED <<appVars, predVars, bootVars, painVars, daysVars, tipVars, planVars, encVars, labVars>>

\* the first call, with every key present
CpCall ==
    /\ cp_features = EmptyDict
    /\ \E features \in CpDicts : CpApply(features)

\* a call that differs from the last one in one value
CpSet(k, v) ==
    /\ DOMAIN cp_features = CpKeys
    /\ CpApply([cp_features EXCEPT ![k] = v])

\* a call with one key left out
CpOmit(k) ==
    /\ DOMAIN cp_features = CpKeys
    /\ CpApply([j \in CpKeys \ {k} |-> cp_features[j]])

RiskInit ==
    /\ cp_features = EmptyDict
    /\ cp_ret = calculate_complication_probability(EmptyDict)

----------------------------------------------------------------------------
(* src/ml/ai_features.py: analyze_pain_pattern                             *)
(* icon, color, description and recommendation are fixed by the pattern    *)
(* and left out, and so is trend_change, which is round(trend_diff, 1).    *)

\* s[-n:]
LastN(s, n) == IF Len(s) <= n THEN s ELSE SubSeq(s, Len(s) - n + 1, Len(s))

\* s[:n]
FirstN(s, n) == IF Len(s) <= n THEN s ELSE SubSeq(s, 1, n)

RECURSIVE SumSeq(_)
SumSeq(s) == IF s = <<>> THEN 0 ELSE s[1] + SumSeq(Tail(s))

\* pain_scores.index(v) + 1: the 1-based position of the first v
IndexOf(s, v) == CHOOSE i \in 1..Len(s) : s[i] = v /\ \A j \in 1..(i - 1) : s[j] # v

MaxOf(s) == CHOOSE v \in {s[i] : i \in 1..Len(s)} : \A i \in 1..Len(s) : s[i] <= v

MinOf(s) == CHOOSE v \in {s[i] : i \in 1..Len(s)} : \A i \in 1..Len(s) : s[i] >= v

\* round(num / den, 1) in tenths, for den > 0 and num >= 0: Python rounds
\* the double to the nearest tenth, and a tie (num/den ending in .25 or
\* .75, which a double holds exactly) to the even tenth
RoundTenths(num, den) ==
    LET q == (10 * num) \div den
        r == (10 * num) % den
    IN  IF 2 * r < den THEN q
        ELSE IF 2 * r > den THEN q + 1
        ELSE IF q % 2 = 0 THEN q ELSE q + 1

\* lines 178-180 compute sum(last 3)/3 - sum(first 3)/3 in doubles.  For
\* sums of three scores in 0..10 the double equals the exact difference
\* except for the pairs {recent sum, earlier sum} below, where the exact
\* difference is 2 or -2 and the double is 1.9999999999999996 (or ...98,
\* ...91) in magnitude,
DoubleShortOfTwo == {{5, 11}, {7, 13}, {10, 16}, {20, 26}, {23, 29}}

\* and for these, where the exact difference is 1 or -1 and the double is
\* 1.0000000000000002 (or ...04, ...09) in magnitude
DoubleOverOne == {{4, 7}, {11, 14}, {22, 25}}

\* the function with trend_diff taken between the last and the first score
\* of the window whatever its length
analyze_pain_pattern_endpoints(logs) ==
    IF Len(logs) < 2
    THEN [pattern |-> "Insufficient Data", trend |-> "unknown"]
    ELSE
    LET window      == LastN(logs, 7)
        pain_scores == [i \in 1..Len(window) |-> Get(window[i], "pain_score", 0)]
        n           == Len(pain_scores)
        recent_sum  == SumSeq(LastN(pain_scores, 3))
        earlier_sum == SumSeq(FirstN(pain_scores, 3))
        \* three times trend_diff when n >= 3, trend_diff itself otherwise
        diff3       == 3 * (pain_scores[n] - pain_scores[1])
        diff1       == pain_scores[n] - pain_scores[1]
        le_minus2   == IF n >= 3
                       THEN diff3 <= -6 /\ {recent_sum, earlier_sum} \notin DoubleShortOfTwo
                       ELSE diff1 <= -2
        ge_plus2    == IF n >= 3
                       THEN diff3 >= 6 /\ {recent_sum, earlier_sum} \notin DoubleShortOfTwo
                       ELSE diff1 >= 2
        abs_le_1    == IF n >= 3
                       THEN /\ -3 <= diff3 /\ diff3 <= 3
                            /\ {recent_sum, earlier_sum} \notin DoubleOverOne
                       ELSE -1 <= diff1 /\ diff1 <= 1
        diffs       == [i \in 1..(n - 1) |-> pain_scores[i + 1] - pain_scores[i]]
        increasing  == Cardinality({i \in 1..(n - 1) : diffs[i] > 0})
        decreasing  == Cardinality({i \in 1..(n - 1) : diffs[i] < 0})
        stable      == Cardinality({i \in 1..(n - 1) : diffs[i] = 0})
        pattern     == IF le_minus2 /\ decreasing >= increasing THEN "Steady Improvement"
                       ELSE IF ge_plus2 /\ increasing >= decreasing THEN "Worsening Trend"
                       ELSE IF abs_le_1 /\ stable >= 2 THEN "Plateau"
                       ELSE IF increasing > 0 /\ decreasing > 0 THEN "Fluctuating"
                       ELSE "Early Recovery"
        trend       == CASE pattern = "Steady Improvement" -> "improving"
                         [] pattern = "Worsening Trend" -> "worsening"
                         [] pattern = "Plateau" -> "stable"
                         [] pattern = "Fluctuating" -> "fluctuating"
                         [] pattern = "Early Recovery" -> "early"
        \* lines 231-232: computed, and in no key of the dict returned
        peak_day    == IndexOf(pain_scores, MaxOf(pain_scores))
        best_day    == IndexOf(pain_scores, MinOf(pain_scores))
    IN  [pattern |-> pattern,
         trend |-> trend,
         scores |-> pain_scores,
         average |-> RoundTenths(SumSeq(pain_scores), n),
         peak_score |-> MaxOf(pain_scores),
         best_score |-> MinOf(pain_scores)]

\* lines 159-246
analyze_pain_pattern(logs) ==
    IF Len(logs) < 2
    THEN [pattern |-> "Insufficient Data", trend |-> "unknown"]
    ELSE
    LET window      == LastN(logs, 7)
        pain_scores == [i \in 1..Len(window) |-> Get(window[i], "pain_score", 0)]
        n           == Len(pain_scores)
        recent_sum  == SumSeq(LastN(pain_scores, 3))
        earlier_sum == SumSeq(FirstN(pain_scores, 3))
        \* three times trend_diff when n >= 3, trend_diff itself otherwise
        diff3       == recent_sum - earlier_sum
        diff1       == pain_scores[n] - pain_scores[1]
        le_minus2   == IF n >= 3
                       THEN diff3 <= -6 /\ {recent_sum, earlier_sum} \notin DoubleShortOfTwo
                       ELSE diff1 <= -2
        ge_plus2    == IF n >= 3
                       THEN diff3 >= 6 /\ {recent_sum, earlier_sum} \notin DoubleShortOfTwo
                       ELSE diff1 >= 2
        abs_le_1    == IF n >= 3
                       THEN /\ -3 <= diff3 /\ diff3 <= 3
                            /\ {recent_sum, earlier_sum} \notin DoubleOverOne
                       ELSE -1 <= diff1 /\ diff1 <= 1
        diffs       == [i \in 1..(n - 1) |-> pain_scores[i + 1] - pain_scores[i]]
        increasing  == Cardinality({i \in 1..(n - 1) : diffs[i] > 0})
        decreasing  == Cardinality({i \in 1..(n - 1) : diffs[i] < 0})
        stable      == Cardinality({i \in 1..(n - 1) : diffs[i] = 0})
        pattern     == IF le_minus2 /\ decreasing >= increasing THEN "Steady Improvement"
                       ELSE IF ge_plus2 /\ increasing >= decreasing THEN "Worsening Trend"
                       ELSE IF abs_le_1 /\ stable >= 2 THEN "Plateau"
                       ELSE IF increasing > 0 /\ decreasing > 0 THEN "Fluctuating"
                       ELSE "Early Recovery"
        trend       == CASE pattern = "Steady Improvement" -> "improving"
                         [] pattern = "Worsening Trend" -> "worsening"
                         [] pattern = "Plateau" -> "stable"
                         [] pattern = "Fluctuating" -> "fluctuating"
                         [] pattern = "Early Recovery" -> "early"
        \* lines 231-232: computed, and in no key of the dict returned
        peak_day    == IndexOf(pain_scores, MaxOf(pain_scores))
        best_day    == IndexOf(pain_scores, MinOf(pain_scores))
    IN  [pattern |-> pattern,
         trend |-> trend,
         scores |-> pain_scores,
         average |-> RoundTenths(SumSeq(pain_scores), n),
         peak_score |-> MaxOf(pain_scores),
         best_score |-> MinOf(pain_scores)]

(* SpecPain: analyze_pain_pattern on a growing history *)

\* the pain_score of the first report
FirstPain == {1, 3, 8}

\* from one report to the next the pain_score falls by one, stays, or rises
\* by two, within 0..10
PainSteps == {-1, 0, 2}

PainApply(logs) ==
    /\ pain_logs' = logs
    /\ pain_ret' = analyze_pain_pattern(logs)
    /\ UNCHANGED <<appVars, predVars, bootVars, riskVars, daysVars, tipVars, planVars, encVars, labVars>>

PainFirst(ps) ==
    /\ pain_logs = <<>>
    /\ PainApply(<<[pain_score |-> ps]>>)

PainNext(step) ==
    /\ pain_logs # <<>>
    /\ Len(pain_logs) < MaxDays
    /\ Last(pain_logs).pain_score + step \in 0..10
    /\ PainApply(Append(pain_logs, [pain_score |-> Last(pain_logs).pain_score + step]))

PainInit ==
    /\ pain_logs = <<>>
    /\ pain_ret = analyze_pain_pattern(<<>>)

----------------------------------------------------------------------------
(* src/ml/ai_features.py: predict_recovery_days                            *)
(* expected_recovery_date is today plus days_remaining and is left out;    *)
(* a milestone is named by its words, without the emoji in front.          *)

\* lines 15-21
RECOVERY_BASE_DAYS ==
    ("Minor Surgery" :> 14) @@ ("Orthopedic Surgery" :> 60) @@
    ("General Discharge" :> 21) @@ ("Injury Recovery" :> 30) @@
    ("Stroke Rehab" :> 90)

\* line 32, in tenths: 1.0, 1.3, 1.6, 2.0
risk_multiplier == [Low |-> 10, Moderate |-> 13, High |-> 16, Critical |-> 20]

\* line 42 multiplies base * multiplier * pain_factor * mobility_factor in
\* doubles and truncates.  For pain_score and mobility in 0..10, and for
\* the arguments drawn in SpecDays, the result
\* is the truncated exact product except for these <<base, multiplier in
\* tenths, pain_score, mobility>>, where the exact product is a whole
\* number N (63, 126, 207 or 252) and the double product is
\* N - 0.00000000000001, so that int() gives N - 1
DoubleBelowWhole ==
    {<<60, 10, 10, 10>>, <<60, 20, 10, 10>>, <<30, 20, 10, 10>>,
     <<90, 10, 0, 10>>, <<90, 10, 8, 0>>, <<90, 16, 5, 10>>,
     <<90, 20, 0, 10>>, <<90, 20, 3, 0>>, <<90, 20, 8, 0>>}

\* and for these, with a mobility above 33 that makes the product negative,
\* the exact product is a whole number -N (-63, -126) and the double product
\* is -N + 0.00000000000001, so that int() gives -N + 1
DoubleAboveWhole == {<<90, 10, 8, 50>>, <<90, 20, 8, 50>>}

\* the function without the cap of progress_pct at 100
predict_recovery_days_uncapped(surgery_type, risk_level, days_post, pain_score, mobility) ==
    LET base       == Get(RECOVERY_BASE_DAYS, surgery_type, 30)
        multiplier == Get(risk_multiplier, risk_level, 10)
        \* pain_factor = 1 + (pain_score/10)*0.5 = (20 + pain_score)/20
        \* mobility_factor = 1 - (mobility/10)*0.3 = (100 - 3*mobility)/100
        exact20000 == base * multiplier * (20 + pain_score) * (100 - 3 * mobility)
        \* int() truncates towards zero
        estimated_total ==
            IF <<base, multiplier, pain_score, mobility>> \in DoubleBelowWhole
            THEN exact20000 \div 20000 - 1
            ELSE IF <<base, multiplier, pain_score, mobility>> \in DoubleAboveWhole
            THEN -((-exact20000) \div 20000) + 1
            ELSE IF exact20000 >= 0
            THEN exact20000 \div 20000
            ELSE -((-exact20000) \div 20000)
        remaining  == Max(0, estimated_total - days_post)
        progress_pct == IF estimated_total > 0
                        THEN RoundTenths(100 * days_post, estimated_total)
                        ELSE 1000
        milestone  == IF progress_pct >= 900 THEN "Almost fully recovered!"
                      ELSE IF progress_pct >= 700 THEN "Great progress"
                      ELSE IF progress_pct >= 500 THEN "Halfway there"
                      ELSE IF progress_pct >= 250 THEN "Early recovery"
                      ELSE "Just started"
    IN  [estimated_total_days |-> estimated_total,
         days_completed |-> days_post,
         milestone |-> milestone,
         days_remaining |-> remaining,
         progress_pct |-> progress_pct]

\* lines 23-69; progress_pct is in tenths of a percent
predict_recovery_days(surgery_type, risk_level, days_post, pain_score, mobility) ==
    LET base       == Get(RECOVERY_BASE_DAYS, surgery_type, 30)
        multiplier == Get(risk_multiplier, risk_level, 10)
        \* pain_factor = 1 + (pain_score/10)*0.5 = (20 + pain_score)/20
        \* mobility_factor = 1 - (mobility/10)*0.3 = (100 - 3*mobility)/100
        exact20000 == base * multiplier * (20 + pain_score) * (100 - 3 * mobility)
        \* int() truncates towards zero
        estimated_total ==
            IF <<base, multiplier, pain_score, mobility>> \in DoubleBelowWhole
            THEN exact20000 \div 20000 - 1
            ELSE IF <<base, multiplier, pain_score, mobility>> \in DoubleAboveWhole
            THEN -((-exact20000) \div 20000) + 1
            ELSE IF exact20000 >= 0
            THEN exact20000 \div 20000
            ELSE -((-exact20000) \div 20000)
        remaining  == Max(0, estimated_total - days_post)
        progress_pct == IF estimated_total > 0
                        THEN Min(1000, RoundTenths(100 * days_post, estimated_total))
                        ELSE 1000
        milestone  == IF progress_pct >= 900 THEN "Almost fully recovered!"
                      ELSE IF progress_pct >= 700 THEN "Great progress"
                      ELSE IF progress_pct >= 500 THEN "Halfway there"
                      ELSE IF progress_pct >= 250 THEN "Early recovery"
                      ELSE "Just started"
    IN  [estimated_total_days |-> estimated_total,
         days_completed |-> days_post,
         milestone |-> milestone,
         days_remaining |-> remaining,
         progress_pct |-> progress_pct]

(* SpecDays: predict_recovery_days on arbitrary arguments *)

RdValues ==
    [surgery_type |-> DOMAIN RECOVERY_BASE_DAYS \cup {"Cardiac Surgery"},
     risk_level |-> DOMAIN risk_multiplier \cup {"Unknown"},
     days_post |-> {-3, 0, 21, 42, 100},
     pain_score |-> {-20, 0, 3, 5, 8, 10},
     mobility |-> {0, 5, 10, 33, 50}]

RdKeys == DOMAIN RdValues

RdApply(args) ==
    /\ rd_args' = args
    /\ rd_ret' = predict_recovery_days(args.surgery_type, args.risk_level,
                                       args.days_post, args.pain_score, args.mobility)
    /\ UNCHANGED <<appVars, predVars, bootVars, riskVars, painVars, tipVars, planVars, encVars, labVars>>

\* a call that differs from the last one in one argument
RdSet(k, v) == RdApply([rd_args EXCEPT ![k] = v])

\* the call of recovery_prediction for a patient without logs: risk_level
\* Low, pain_score 5, mobility 5, here on the day of an orthopedic surgery
DaysInit ==
    /\ rd_args = [surgery_type |-> "Orthopedic Surgery", risk_level |-> "Low",
                  days_post |-> 0, pain_score |-> 5, mobility |-> 5]
    /\ rd_ret = predict_recovery_days("Orthopedic Surgery", "Low", 0, 5, 5)

----------------------------------------------------------------------------
(* src/ml/ai_features.py: get_daily_tip                                    *)
(* A tip is the tuple (icon, title, content); the titles of a pathway's    *)
(* list are distinct, so a tip is named by its title.                      *)

\* lines 252-298
HEALTH_TIPS ==
    ("Minor Surgery" :>
        <<"Hydration Tip", "Rest Position", "Nutrition", "Breathing", "Walking",
          "Wound Care", "Sleep">>) @@
    ("Orthopedic Surgery" :>
        <<"Leg Exercises", "Ice Therapy", "Range of Motion", "Weight Bearing",
          "Medication Timing", "Seating", "Isometrics">>) @@
    ("General Discharge" :>
        <<"Follow-up", "Vital Signs", "Medications", "Diet", "Hygiene",
          "Emergency Signs", "Mental Health">>) @@
    ("Injury Recovery" :>
        <<"RICE Protocol", "Compression", "No Pain No Gain - MYTH", "Heat vs Ice",
          "Footwear", "Posture", "Pool Therapy">>) @@
    ("Stroke Rehab" :>
        <<"Neuroplasticity", "Hand Exercises", "Speech Practice",
          "Visual Exercises", "Music Therapy", "Family Support", "Consistency">>)

\* lines 300-323.  Python's % takes the sign of the divisor, as % does here;
\* a Python list is indexed from 0 and a sequence from 1.
get_daily_tip_next_day(surgery_type, days_post, risk_level) ==
    LET tips    == Get(HEALTH_TIPS, surgery_type, HEALTH_TIPS["General Discharge"])
        tip_idx == (days_post + 1) % Len(tips)
        urgency_note ==
            IF risk_level = "Critical"
            THEN "Given your current critical status - please consult your doctor"
            ELSE IF risk_level = "High"
            THEN "Due to high risk status - take extra caution"
            ELSE ""
    IN  [title |-> tips[tip_idx + 1],
         urgency_note |-> urgency_note,
         day_number |-> days_post,
         tip_category |-> surgery_type]

get_daily_tip(surgery_type, days_post, risk_level) ==
    LET tips    == Get(HEALTH_TIPS, surgery_type, HEALTH_TIPS["General Discharge"])
        tip_idx == days_post % Len(tips)
        urgency_note ==
            IF risk_level = "Critical"
            THEN "Given your current critical status - please consult your doctor"
            ELSE IF risk_level = "High"
            THEN "Due to high risk status - take extra caution"
            ELSE ""
    IN  [title |-> tips[tip_idx + 1],
         urgency_note |-> urgency_note,
         day_number |-> days_post,
         tip_category |-> surgery_type]

(* SpecTip: get_daily_tip on arbitrary arguments *)

\* days_post is today minus surgery_date (main.py:485), negative for a
\* surgery_date in the future
TipValues ==
    [surgery_type |-> DOMAIN HEALTH_TIPS \cup {"Cardiac Surgery"},
     days_post |-> -8..15,
     risk_level |-> {"Low", "Moderate", "High", "Critical", "Unknown"}]

TipKeys == DOMAIN TipValues

TipApply(args) ==
    /\ tip_args' = args
    /\ tip_ret' = get_daily_tip(args.surgery_type, args.days_post, args.risk_level)
    /\ UNCHANGED <<appVars, predVars, bootVars, riskVars, painVars, daysVars, planVars, encVars, labVars>>

\* a call that differs from the last one in one argument
TipSet(k, v) == TipApply([tip_args EXCEPT ![k] = v])

\* the call of daily_tip for a patient without logs on the day of surgery
TipInit ==
    /\ tip_args = [surgery_type |-> "Orthopedic Surgery", days_post |-> 0,
                   risk_level |-> "Low"]
    /\ tip_ret = get_daily_tip("Orthopedic Surgery", 0, "Low")

----------------------------------------------------------------------------
(* SpecPlan: calls of get_rehab_plan and get_recovery_score in any order *)

PlanArgs ==
    [surgery_type : DOMAIN REHAB_PLANS_literal \cup {"Cardiac Surgery"},
     risk_level : {"Low", "Moderate", "High", "Critical", "Unknown"},
     days_post_surgery : {0, 7, 8, 21, 22, 42, 43}]

\* the log lists passed to get_recovery_score: none, one or two entries
ScoreEntries == {e \in FnEntries : e.pain_score = 4 /\ e.mobility = 10}

ScoreArgs == {<<>>} \cup {<<e>> : e \in ScoreEntries}
                    \cup {<<e1, e2>> : e1 \in ScoreEntries, e2 \in ScoreEntries}

PlanCall(args) ==
    LET r == get_rehab_plan(REHAB_PLANS, args.surgery_type, args.risk_level,
                            args.days_post_surgery)
    IN  /\ pure_call' = [fn |-> "get_rehab_plan", args |-> args]
        /\ pure_ret' = r.ret
        /\ REHAB_PLANS' = r.REHAB_PLANS
        /\ UNCHANGED caller_logs
        /\ UNCHANGED <<appVars, predVars, bootVars, riskVars, painVars, daysVars, tipVars, encVars, labVars>>

\* lines 191-223 read logs[0] and logs[-1] and assign nothing to the list
\* or its entries: the caller's list after the call is the list passed
ScoreCall(logs) ==
    /\ pure_call' = [fn |-> "get_recovery_score", args |-> logs]
    /\ pure_ret' = get_recovery_score(logs)
    /\ caller_logs' = logs
    /\ UNCHANGED REHAB_PLANS
    /\ UNCHANGED <<appVars, predVars, bootVars, riskVars, painVars, daysVars, tipVars, encVars, labVars>>

PlanInit ==
    /\ REHAB_PLANS = REHAB_PLANS_literal
    /\ caller_logs = <<>>
    /\ pure_call = [fn |-> "none", args |-> <<>>]
    /\ pure_ret = PyNone

----------------------------------------------------------------------------
(* src/ml/model.py: the feature row built in predict_risk                  *)

\* lines 105-110
surgery_map ==
    ("Minor Surgery" :> 0) @@ ("Orthopedic Surgery" :> 1) @@
    ("General Discharge" :> 2) @@ ("Injury Recovery" :> 3) @@ ("Stroke Rehab" :> 4)

swelling_map == [None |-> 0, Mild |-> 1, Moderate |-> 2, Severe |-> 3]

wound_map == ("Clean/Healing" :> 0) @@ ("Redness" :> 1) @@ ("Discharge/Open" :> 2)

trend_map == [Improving |-> -1, Stable |-> 0, Worsening |-> 1]

\* the keys subscripted at lines 113-121, in the order they are evaluated
RowKeys == <<"pain_score", "swelling", "fever", "mobility", "wound_status",
             "medication_adherence", "days_post_surgery", "surgery_type",
             "pain_trend">>

\* lines 112-122: X[0], or the KeyError that features[key] raises for the
\* first key that the dict does not have
feature_row(features) ==
    LET missing == {i \in 1..Len(RowKeys) : RowKeys[i] \notin DOMAIN features}
    IN  IF missing # {}
        THEN [raised |-> "KeyError",
              key |-> RowKeys[CHOOSE i \in missing : \A j \in missing : i <= j]]
        ELSE [raised |-> PyNone,
              X |-> <<features["pain_score"],
                      Get(swelling_map, features["swelling"], 0),
                      features["fever"],
                      features["mobility"],
                      Get(wound_map, features["wound_status"], 0),
                      features["medication_adherence"],
                      features["days_post_surgery"],
                      Get(surgery_map, features["surgery_type"], 2),
                      Get(trend_map, features["pain_trend"], 0)>>]

(* SpecEnc: the feature row for arbitrary category values *)

\* per category key: the values of its map, a value outside it, and None
EncValues ==
    [swelling |-> DOMAIN swelling_map \cup {"Huge", PyNone},
     wound_status |-> DOMAIN wound_map \cup {"Bleeding", PyNone},
     surgery_type |-> DOMAIN surgery_map \cup {"Cardiac Surgery", PyNone},
     pain_trend |-> DOMAIN trend_map \cup {"Unknown", PyNone}]

EncKeys == DOMAIN EncValues

EncApply(features) ==
    /\ enc_features' = features
    /\ enc_ret' = feature_row(features)
    /\ UNCHANGED <<appVars, predVars, bootVars, riskVars, painVars, daysVars, tipVars, planVars, labVars>>

\* a dict that differs from the last one in the value of one category key,
\* or has the key again
EncSet(k, v) == EncApply((k :> v) @@ enc_features)

\* a dict that lacks one more category key
EncDrop(k) ==
    /\ k \in DOMAIN enc_features
    /\ EncApply([j \in DOMAIN enc_features \ {k} |-> enc_features[j]])

\* the dict submit_daily_log builds (main.py:301-311) for a report of an
\* orthopedic patient
EncInit ==
    /\ enc_features = [pain_score |-> 3, swelling |-> "None", fever |-> 986,
                       mobility |-> 5, wound_status |-> "Clean/Healing",
                       medication_adherence |-> 10, days_post_surgery |-> 10,
                       surgery_type |-> "Orthopedic Surgery", pain_trend |-> "Stable"]
    /\ enc_ret = feature_row(enc_features)

----------------------------------------------------------------------------
(* src/ml/model.py: the label rule of generate_dataset                     *)

\* the cascade with the low-mobility rule tried before the two Moderate rules
risk_label_mobility_first(row) ==
    IF row.fever >= 1015 \/ row.wound_status = 2 THEN 3
    ELSE IF row.pain_score >= 8 \/ row.swelling = 3 THEN 2
    ELSE IF row.mobility <= 2 /\ row.days_post_surgery > 14 THEN 2
    ELSE IF row.pain_score >= 6 \/ row.swelling = 2 \/ row.fever >= 1004 THEN 1
    ELSE IF row.pain_trend = 1 /\ row.pain_score >= 5 THEN 1
    ELSE 0

\* lines 33-45: the risk label of one generated row
risk_label_fever_first(row) ==
    IF row.fever >= 1015 \/ row.wound_status = 2 THEN 3
    ELSE IF row.pain_score >= 6 \/ row.swelling = 2 \/ row.fever >= 1004 THEN 1
    ELSE IF row.pain_score >= 8 \/ row.swelling = 3 THEN 2
    ELSE IF row.pain_trend = 1 /\ row.pain_score >= 5 THEN 1
    ELSE IF row.mobility <= 2 /\ row.days_post_surgery > 14 THEN 2
    ELSE 0

risk_label(row) ==
    IF row.fever >= 1015 \/ row.wound_status = 2 THEN 3
    ELSE IF row.pain_score >= 8 \/ row.swelling = 3 THEN 2
    ELSE IF row.pain_score >= 6 \/ row.swelling = 2 \/ row.fever >= 1004 THEN 1
    ELSE IF row.pain_trend = 1 /\ row.pain_score >= 5 THEN 1
    ELSE IF row.mobility <= 2 /\ row.days_post_surgery > 14 THEN 2
    ELSE 0

(* SpecLabel: the label of arbitrary rows *)

\* lines 22-30: values of each feature's range on both sides of every
\* threshold of the rule; fever 98.0 to 104.0 in tenths
LabValues ==
    [pain_score |-> {3, 5, 6, 8},
     swelling |-> 0..3,
     fever |-> {980, 1003, 1004, 1014, 1015, 1040},
     mobility |-> {2, 3},
     wound_status |-> 0..2,
     medication_adherence |-> {0, 10},
     days_post_surgery |-> {14, 15},
     surgery_type |-> {1, 4},
     pain_trend |-> {-1, 0, 1}]

LabKeys == DOMAIN LabValues

LabApply(row) ==
    /\ lab_row' = row
    /\ lab_risk' = risk_label(row)
    /\ UNCHANGED <<appVars, predVars, bootVars, riskVars, painVars, daysVars, tipVars, planVars, encVars>>

\* a row that differs from the last one in one feature
LabSet(k, v) == LabApply([lab_row EXCEPT ![k] = v])

LabInit ==
    /\ lab_row = [pain_score |-> 3, swelling |-> 0, fever |-> 980, mobility |-> 3,
                  wound_status |-> 0, medication_adherence |-> 10,
                  days_post_surgery |-> 14, surgery_type |-> 1, pain_trend |-> 0]
    /\ lab_risk = risk_label(lab_row)

----------------------------------------------------------------------------
(* SpecPredict: what predict_risk returns for a class distribution *)

RISK_COLORS == [i \in 0..3 |-> CASE i = 0 -> "#22c55e"
                                 [] i = 1 -> "#f59e0b"
                                 [] i = 2 -> "#f97316"
                                 [] i = 3 -> "#ef4444"]

\* the denominators of the distributions drawn: with an odd denominator that
\* does not divide 1000 no percentage lies exactly half-way between two
\* one-decimal values, so round(.., 1) of the double and of the exact
\* quotient agree
Denominators == {3, 7}

\* model.predict_proba(X)[0]: one mean probability per class 0..3, in parts
\* of den, adding up to one
Distributions(den) ==
    { p \in [0..3 -> 0..den] : p[0] + p[1] + p[2] + p[3] = den }

\* a classifier answering with the last class whatever the estimates are
rf_predict_last(proba) == 3

\* model.predict(X)[0] of the RandomForestClassifier: the class with the
\* highest mean probability estimate, the first one among equal maxima
rf_predict(proba) ==
    CHOOSE i \in 0..3 :
        /\ \A j \in 0..3 : proba[j] <= proba[i]
        /\ \A j \in 0..3 : j < i => proba[j] < proba[i]

\* the dict predict_risk returns, percentages in tenths
predict_risk_return(proba, den) ==
    LET risk_idx   == rf_predict(proba)
        confidence == RoundTenths(100 * proba[risk_idx], den)
    IN  [risk_level |-> RISK_LABELS[risk_idx],
         risk_index |-> risk_idx,
         confidence |-> confidence,
         color |-> RISK_COLORS[risk_idx],
         probabilities |->
             [l \in {RISK_LABELS[i] : i \in 0..3} |->
                 LET i == CHOOSE j \in 0..3 : RISK_LABELS[j] = l
                 IN  RoundTenths(100 * proba[i], den)]]

\* one predict_risk call on a feature vector for which the forest's
\* estimates are proba / den
PredCall(den, proba) ==
    /\ rf_den' = den
    /\ rf_proba' = proba
    /\ rf_ret' = predict_risk_return(proba, den)
    /\ UNCHANGED <<appVars, riskVars, painVars, daysVars, tipVars, planVars,
                   encVars, labVars, bootVars>>

\* a call on a vector every tree puts in class Low
PredInit ==
    /\ rf_den = 7
    /\ rf_proba = [i \in 0..3 |-> IF i = 0 THEN 7 ELSE 0]
    /\ rf_ret = predict_risk_return([i \in 0..3 |-> IF i = 0 THEN 7 ELSE 0], 7)

----------------------------------------------------------------------------
(* SpecBoot: predict_risk calls of the worker threads on the model file *)

\* the variables no step of predict_risk / load_model touches
restVars == <<appVars, riskVars, painVars, daysVars, tipVars, planVars, encVars,
              labVars, predVars>>

\* the threads that run the synchronous handlers
BootThreads == {"w1", "w2"}

\* predict_risk is entered: model = load_model()
BootStart(t) ==
    /\ boot_pc[t] = "idle"
    /\ boot_calls < MaxCalls
    /\ boot_calls' = boot_calls + 1
    /\ boot_pc' = [boot_pc EXCEPT ![t] = "exists"]
    /\ boot_ret' = [boot_ret EXCEPT ![t] = "pending"]
    /\ UNCHANGED <<model_file, trained, restVars>>

\* load_model: if not os.path.exists(model_path): return train_and_save()
BootExists(t) ==
    /\ boot_pc[t] = "exists"
    /\ boot_pc' = [boot_pc EXCEPT ![t] = IF model_file = "absent" THEN "fit" ELSE "load"]
    /\ UNCHANGED <<model_file, boot_ret, trained, boot_calls, restVars>>

\* train_and_save: generate_dataset, train_test_split, model.fit, the report
BootFit(t) ==
    /\ boot_pc[t] = "fit"
    /\ trained' = trained + 1
    /\ boot_pc' = [boot_pc EXCEPT ![t] = "open"]
    /\ UNCHANGED <<model_file, boot_ret, boot_calls, restVars>>

\* train_and_save: open(model_path, "wb") creates or truncates the file
BootOpen(t) ==
    /\ boot_pc[t] = "open"
    /\ model_file' = "partial"
    /\ boot_pc' = [boot_pc EXCEPT ![t] = "dump"]
    /\ UNCHANGED <<boot_ret, trained, boot_calls, restVars>>

\* train_and_save: pickle.dump(model, f), the file is closed, return model
BootDump(t) ==
    /\ boot_pc[t] = "dump"
    /\ model_file' = "saved"
    /\ boot_pc' = [boot_pc EXCEPT ![t] = "infer"]
    /\ UNCHANGED <<boot_ret, trained, boot_calls, restVars>>

\* load_model: pickle.load(f); on a file that holds no complete pickle yet
\* it raises (EOFError) and the call ends without a result
BootLoad(t) ==
    /\ boot_pc[t] = "load"
    /\ IF model_file = "saved"
       THEN /\ boot_pc' = [boot_pc EXCEPT ![t] = "infer"]
            /\ UNCHANGED boot_ret
       ELSE /\ boot_pc' = [boot_pc EXCEPT ![t] = "idle"]
            /\ boot_ret' = [boot_ret EXCEPT ![t] = "EOFError"]
    /\ UNCHANGED <<model_file, trained, boot_calls, restVars>>

\* predict_risk: model.predict, model.predict_proba, return {...}
BootInfer(t) ==
    /\ boot_pc[t] = "infer"
    /\ boot_pc' = [boot_pc EXCEPT ![t] = "idle"]
    /\ boot_ret' = [boot_ret EXCEPT ![t] = "result"]
    /\ UNCHANGED <<model_file, trained, boot_calls, restVars>>

\* a fresh checkout: risk_model.pkl does not exist, no call was made
BootInit ==
    /\ model_file = "absent"
    /\ boot_pc = [t \in BootThreads |-> "idle"]
    /\ boot_ret = [t \in BootThreads |-> "none"]
    /\ trained = 0
    /\ boot_calls = 0

----------------------------------------------------------------------------
(* SpecAi: the /ai endpoints of src/backend/main.py on the store *)

\* the daily reports submitted in SpecAi
AiLogs == { l \in DailyLogs : l.pain_score = 7 /\ l.fever = 986 }

\* logs[-1] if logs else {}
latest_of(logs) == IF logs # <<>> THEN Last(logs) ELSE EmptyDict

NotFound == [status |-> 404, detail |-> "Patient not found"]

\* GET /ai/recovery-prediction/{patient_id}
recovery_prediction(patient_id) ==
    /\ call' = [op |-> "recovery_prediction", patient_id |-> patient_id]
    /\ resp' =
         IF patient_id \notin DOMAIN db.patients THEN NotFound
         ELSE LET patient == db.patients[patient_id]
                  logs    == Get(db.logs, patient_id, <<>>)
                  latest  == latest_of(logs)
              IN  [status |-> 200,
                   result |-> predict_recovery_days(
                                  patient.surgery_type,
                                  Get(latest, "risk_level", "Low"),
                                  days_post_of(patient),
                                  Get(latest, "pain_score", 5),
                                  Get(latest, "mobility", 5))]
    /\ UNCHANGED <<db, fnVars, concVars, aiVars>>

\* GET /ai/complication-risk/{patient_id}
complication_risk(patient_id) ==
    /\ call' = [op |-> "complication_risk", patient_id |-> patient_id]
    /\ resp' =
         IF patient_id \notin DOMAIN db.patients THEN NotFound
         ELSE LET logs == Get(db.logs, patient_id, <<>>)
              IN  IF logs = <<>>
                  THEN [status |-> 400, detail |-> "No logs found - submit daily log first"]
                  ELSE [status |-> 200,
                        result |-> calculate_complication_probability(Last(logs))]
    /\ UNCHANGED <<db, fnVars, concVars, aiVars>>

\* GET /ai/pain-pattern/{patient_id}
pain_pattern(patient_id) ==
    /\ call' = [op |-> "pain_pattern", patient_id |-> patient_id]
    /\ resp' =
         IF patient_id \notin DOMAIN db.patients THEN NotFound
         ELSE [status |-> 200,
               result |-> analyze_pain_pattern(Get(db.logs, patient_id, <<>>))]
    /\ UNCHANGED <<db, fnVars, concVars, aiVars>>

\* GET /ai/daily-tip/{patient_id}
daily_tip(patient_id) ==
    /\ call' = [op |-> "daily_tip", patient_id |-> patient_id]
    /\ resp' =
         IF patient_id \notin DOMAIN db.patients THEN NotFound
         ELSE LET patient == db.patients[patient_id]
                  logs    == Get(db.logs, patient_id, <<>>)
                  latest  == latest_of(logs)
              IN  [status |-> 200,
                   result |-> get_daily_tip(patient.surgery_type,
                                            days_post_of(patient),
                                            Get(latest, "risk_level", "Low"))]
    /\ UNCHANGED <<db, fnVars, concVars, aiVars>>

----------------------------------------------------------------------------
(* the state of the harnesses before any call *)

AiInit ==
    /\ RiskInit
    /\ PainInit
    /\ DaysInit
    /\ TipInit
    /\ PlanInit
    /\ EncInit
    /\ LabInit
    /\ PredInit
    /\ BootInit

----------------------------------------------------------------------------
(* Specifications *)

FnInit ==
    /\ arg_logs = <<>>
    /\ ret_score = get_recovery_score(<<>>)
    /\ ret_alerts = [ri \in 0..3 |->
                        check_alerts(<<>>, FnPatient, predict_risk(EmptyDict, ri))]

SysInit ==
    /\ db = EmptyDb
    /\ call = [op |-> "none", patient_id |-> UnknownPid]
    /\ resp = [status |-> 0]

Init == SysInit /\ FnInit /\ ConcInit /\ AiInit

Next ==
    \/ \E pid \in PIDs : register_patient(pid, PatientOf[pid])
    \/ \E log \in DailyLogs, risk_idx \in RiskClasses : submit_daily_log(log, risk_idx)

Spec == Init /\ [][Next]_vars

NextFn ==
    \/ \E e \in FnEntries : FnAppend(e)
    \/ \E i \in 1..MaxLen, e \in FnEntries : FnInsert(i, e)
    \/ \E i \in 1..MaxLen : FnRemove(i)
    \/ \E i \in 1..MaxLen, ps \in {-5, 4, 30}, mb \in {0, 10} : FnChange(i, ps, mb)

SpecFn == Init /\ [][NextFn]_vars

InitConc ==
    /\ db = ConcDb
    /\ call = [op |-> "none", patient_id |-> UnknownPid]
    /\ resp = [status |-> 0]
    /\ FnInit
    /\ ConcInit
    /\ AiInit

NextConc ==
    \/ \E t \in Threads, log \in DailyLogs, risk_idx \in RiskClasses :
           ConcLoad(t, log, risk_idx)
    \/ \E t \in Threads : ConcAppend(t)
    \/ \E t \in Threads : ConcSave(t)

SpecConc == InitConc /\ [][NextConc]_vars

NextRisk ==
    \/ CpCall
    \/ \E k \in CpKeys : \E v \in CpValues[k] : CpSet(k, v)
    \/ \E k \in CpKeys : CpOmit(k)

SpecRisk == Init /\ [][NextRisk]_vars

NextPain ==
    \/ \E ps \in FirstPain : PainFirst(ps)
    \/ \E step \in PainSteps : PainNext(step)

SpecPain == Init /\ [][NextPain]_vars

NextDays == \E k \in RdKeys : \E v \in RdValues[k] : RdSet(k, v)

SpecDays == Init /\ [][NextDays]_vars

NextTip == \E k \in TipKeys : \E v \in TipValues[k] : TipSet(k, v)

SpecTip == Init /\ [][NextTip]_vars

NextPlan ==
    \/ \E args \in PlanArgs : PlanCall(args)
    \/ \E logs \in ScoreArgs : ScoreCall(logs)

SpecPlan == Init /\ [][NextPlan]_vars

NextEnc ==
    \/ \E k \in EncKeys : \E v \in EncValues[k] : EncSet(k, v)
    \/ \E k \in EncKeys : EncDrop(k)

SpecEnc == Init /\ [][NextEnc]_vars

NextLabel == \E k \in LabKeys : \E v \in LabValues[k] : LabSet(k, v)

SpecLabel == Init /\ [][NextLabel]_vars

NextPredict == \E den \in Denominators : \E proba \in Distributions(den) : PredCall(den, proba)

SpecPredict == Init /\ [][NextPredict]_vars

NextBoot ==
    \/ \E t \in BootThreads : BootStart(t)
    \/ \E t \in BootThreads : BootExists(t)
    \/ \E t \in BootThreads : BootFit(t)
    \/ \E t \in BootThreads : BootOpen(t)
    \/ \E t \in BootThreads : BootDump(t)
    \/ \E t \in BootThreads : BootLoad(t)
    \/ \E t \in BootThreads : BootInfer(t)

SpecBoot == Init /\ [][NextBoot]_vars

NextAi ==
    \/ \E pid \in PIDs : register_patient(pid, PatientOf[pid])
    \/ \E log \in AiLogs, risk_idx \in RiskClasses : submit_daily_log(log, risk_idx)
    \/ \E pid \in PIDs \cup {UnknownPid} : recovery_prediction(pid)
    \/ \E pid \in PIDs \cup {UnknownPid} : complication_risk(pid)
    \/ \E pid \in PIDs \cup {UnknownPid} : pain_pattern(pid)
    \/ \E pid \in PIDs \cup {UnknownPid} : daily_tip(pid)

SpecAi == Init /\ [][NextAi]_vars

----------------------------------------------------------------------------
(* Claims C1-C3: get_recovery_score (SpecFn) *)

\* C1: get_recovery_score(logs) is a value in [0,100] for every log history,
\* of any length and with pain_score and mobility outside 0..10 as well.
C1_ScoreInRange == ret_score \in 0..100

\* a history whose unclamped score is 40 + 5*35 = 215 or more
C1_Witness ==
    /\ Len(arg_logs) >= 2
    /\ arg_logs[1].pain_score = 30
    /\ Last(arg_logs).pain_score = -5
    /\ Last(arg_logs).mobility >= arg_logs[1].mobility
    /\ ret_score = 100

\* C2: get_recovery_score equals the piecewise reference: 0 for the empty
\* history; clamp(50 + 3*(10 - pain) + 2*mobility) for one entry; for two or
\* more clamp(40 + 5*(first.pain - latest.pain) + 3*(latest.mobility -
\* first.mobility) - 15 if latest.fever >= 100.4 - 10 if latest.swelling is
\* Moderate or Severe).
C2_Reference ==
    LET n == Len(arg_logs)
        raw == IF n = 1
               THEN 50 + 3 * (10 - arg_logs[1].pain_score) + 2 * arg_logs[1].mobility
               ELSE 40 + 5 * (arg_logs[1].pain_score - arg_logs[n].pain_score)
                       + 3 * (arg_logs[n].mobility - arg_logs[1].mobility)
                       - (IF arg_logs[n].fever >= 1004 THEN 15 ELSE 0)
                       - (IF arg_logs[n].swelling \in {"Moderate", "Severe"} THEN 10 ELSE 0)
    IN  ret_score = IF n = 0 THEN 0
                    ELSE IF raw < 0 THEN 0
                    ELSE IF raw > 100 THEN 100
                    ELSE raw

\* three entries, both penalties applied, no clamping: 40 + 5*0 + 3*10 - 15 - 10
C2_Witness ==
    /\ Len(arg_logs) = 3
    /\ arg_logs[1].pain_score = arg_logs[3].pain_score
    /\ arg_logs[1].mobility = 0
    /\ arg_logs[3].mobility = 10
    /\ arg_logs[3].fever = 1004
    /\ arg_logs[3].swelling = "Moderate"
    /\ ret_score = 45

\* C3: two histories of length >= 2 with the same first and the same latest
\* entry have the same score: a step that inserts, removes or changes
\* intermediate entries leaves the score as it is.
C3_MiddleIrrelevant ==
    [][ ( /\ Len(arg_logs) >= 2
          /\ Len(arg_logs') >= 2
          /\ arg_logs'[1] = arg_logs[1]
          /\ arg_logs'[Len(arg_logs')] = arg_logs[Len(arg_logs)] )
        => ret_score' = ret_score ]_vars

\* an intermediate entry unlike both ends, and the score of the ends alone:
\* 40 + 5*0 + 3*0 - 15
C3_Witness ==
    /\ Len(arg_logs) = 3
    /\ arg_logs[1] = [pain_score |-> 4, mobility |-> 0, fever |-> 1004, swelling |-> "Mild"]
    /\ arg_logs[3] = arg_logs[1]
    /\ arg_logs[2].pain_score = 30
    /\ arg_logs[2].mobility = 10
    /\ ret_score = 25

----------------------------------------------------------------------------
(* Claims C4-C7: check_alerts *)

TypesIn(alerts) == {alerts[i].type : i \in DOMAIN alerts}

\* C4: after a daily report, check_alerts on the history including the
\* just-appended entry returns an ESCALATION alert iff the history has at
\* least 3 entries and its last three pain_scores are strictly increasing.
C4_Escalation ==
    (call.op = "submit_daily_log" /\ resp.status = 200) =>
        LET h == db.logs[call.patient_id]
            n == Len(h)
        IN  "ESCALATION" \in TypesIn(resp.alerts_triggered)
            <=> ( /\ n >= 3
                  /\ h[n - 2].pain_score < h[n - 1].pain_score
                  /\ h[n - 1].pain_score < h[n].pain_score )

\* the reports [3,5,7] of one patient, the third answered with ESCALATION
C4_Witness ==
    /\ call.op = "submit_daily_log"
    /\ resp.status = 200
    /\ Len(db.logs[call.patient_id]) = 3
    /\ [i \in 1..3 |-> db.logs[call.patient_id][i].pain_score] = <<3, 5, 7>>
    /\ "ESCALATION" \in TypesIn(resp.alerts_triggered)

\* C5: check_alerts returns a FEVER_SWELLING alert iff the latest entry has
\* fever >= 100.4 and swelling in {Moderate, Severe}, whatever the earlier
\* entries and the risk assessment are.
C5_FeverSwelling ==
    \A ri \in 0..3 :
        "FEVER_SWELLING" \in TypesIn(ret_alerts[ri])
        <=> ( /\ arg_logs # <<>>
              /\ Last(arg_logs).fever >= 1004
              /\ Last(arg_logs).swelling \in {"Moderate", "Severe"} )

\* the combination in the latest entry only, after entries without it
C5_Witness ==
    /\ Len(arg_logs) = 3
    /\ arg_logs[1].fever = 1003
    /\ arg_logs[2].swelling = "Mild"
    /\ arg_logs[3].fever = 1004
    /\ arg_logs[3].swelling = "Moderate"
    /\ \A ri \in 0..3 : "FEVER_SWELLING" \in TypesIn(ret_alerts[ri])

\* C6: check_alerts returns a CRITICAL alert iff the risk assessment has
\* risk_index >= 3, whatever the log history is (empty and short included).
C6_Critical ==
    \A ri \in 0..3 : "CRITICAL" \in TypesIn(ret_alerts[ri]) <=> ri >= 3

\* a one-entry history: CRITICAL for risk_index 3 and not for 2
C6_Witness ==
    /\ Len(arg_logs) = 1
    /\ "CRITICAL" \in TypesIn(ret_alerts[3])
    /\ "CRITICAL" \notin TypesIn(ret_alerts[2])

\* every subset of the alert types is what check_alerts returns for some
\* history of at most MaxLen entries and some risk_index
AllSubsetsProducible ==
    \A S \in SUBSET AlertTypes :
        \E ri \in 0..3, n \in 0..MaxLen :
            \E h \in [1..n -> FnEntries] :
                TypesIn(check_alerts(h, FnPatient, predict_risk(EmptyDict, ri))) = S

\* C7: the three rules are non-exclusive: no rule suppresses another (the
\* alerts returned are exactly those of the rules whose condition holds),
\* each type appears at most once, so there are 0 to 3 alerts, and each of
\* the 8 subsets of the types is producible.
C7_NonExclusive ==
    /\ \A ri \in 0..3 :
        LET n == Len(arg_logs)
            holds == (IF ri >= 3 THEN {"CRITICAL"} ELSE {})
                     \cup (IF /\ n >= 3
                              /\ arg_logs[n - 2].pain_score < arg_logs[n - 1].pain_score
                              /\ arg_logs[n - 1].pain_score < arg_logs[n].pain_score
                           THEN {"ESCALATION"} ELSE {})
                     \cup (IF /\ n >= 1
                              /\ arg_logs[n].fever >= 1004
                              /\ arg_logs[n].swelling \in {"Moderate", "Severe"}
                           THEN {"FEVER_SWELLING"} ELSE {})
        IN  /\ TypesIn(ret_alerts[ri]) = holds
            /\ Len(ret_alerts[ri]) = Cardinality(holds)
            /\ Len(ret_alerts[ri]) \in 0..3
    /\ AllSubsetsProducible

\* one evaluation returning all three alerts, and with risk_index 2 the
\* other two
C7_Witness ==
    /\ Len(ret_alerts[3]) = 3
    /\ TypesIn(ret_alerts[3]) = AlertTypes
    /\ TypesIn(ret_alerts[2]) = {"ESCALATION", "FEVER_SWELLING"}

----------------------------------------------------------------------------
(* Claims C8-C9: the store under a sequence of requests (Spec) *)

\* C8: the stored alert list is append-only and never deduplicated: a step
\* keeps the stored alerts as a prefix, and a successful submit_daily_log
\* appends every alert it triggered, also one that is stored already.
C8_AlertsAppendOnly ==
    [][ /\ Len(db'.alerts) >= Len(db.alerts)
        /\ SubSeq(db'.alerts, 1, Len(db.alerts)) = db.alerts
        /\ (call'.op = "submit_daily_log" /\ resp'.status = 200)
               => db'.alerts = db.alerts \o resp'.alerts_triggered ]_vars

\* the same alert stored twice: the second report repeated the first's
C8_Witness ==
    \E i, j \in DOMAIN db.alerts :
        /\ i < j
        /\ db.alerts[i] = db.alerts[j]
        /\ db.alerts[j].type = "FEVER_SWELLING"
        /\ call.op = "submit_daily_log"
        /\ resp.status = 200
        /\ db.alerts[j] = Last(resp.alerts_triggered)

----------------------------------------------------------------------------
(* Claim C10: two submissions in parallel (SpecConc) *)

\* the store after the requests of the threads in `order`, one after the other
SerialDb(order) ==
    LET RECURSIVE Run(_, _)
        Run(d, i) ==
            IF i > Len(order) THEN d
            ELSE LET r == wreq[order[i]]
                     patient == d.patients[r.log.patient_id]
                 IN  Run(db_after_submit(d, r.log,
                             predict_risk(features_of(r.log, patient), r.risk_idx)),
                         i + 1)
    IN  Run(ConcDb, 1)

\* C10: concurrent submit_daily_log evaluations for two different patients
\* have no ordering dependency: when both have returned, the store holds what
\* one of the two serial orders leaves (both new entries and all alerts).
C10_ParallelAsSerial ==
    (\A t \in Threads : pc[t] = "done") =>
        \/ db = SerialDb(<<1, 2>>)
        \/ db = SerialDb(<<2, 1>>)

----------------------------------------------------------------------------
(* Claims C11-C12: calculate_complication_probability (SpecRisk) *)

\* the step tables of the claim, in points
FeverStep(fever) ==
    CASE fever >= 1030 -> 25
      [] fever < 1030 /\ fever >= 1015 -> 20
      [] fever < 1015 /\ fever >= 1004 -> 12
      [] fever < 1004 /\ fever >= 995 -> 5
      [] fever < 995 -> 0

SwellingStep(swelling) ==
    CASE swelling = "Mild" -> 5
      [] swelling = "Moderate" -> 10
      [] swelling = "Severe" -> 15
      [] OTHER -> 0

WoundStep(wound) ==
    CASE wound = "Redness" -> 8
      [] wound = "Discharge/Open" -> 15
      [] OTHER -> 0

TrendStep(trend) ==
    CASE trend = "Worsening" -> 10
      [] trend = "Stable" -> 2
      [] OTHER -> 0

\* C11: for a dict with all seven keys the returned probability is
\* 25*pain_score/10 + feverStep + swellingStep + woundStep + trendStep
\* + (5 if mobility <= 2) - 8*medication_adherence/10, clamped to 0..100
\* (all in tenths here); and pain 10, fever 98.6, None, Clean/Healing,
\* Stable, mobility 8, adherence 10 gives 19.0.
C11_Probability ==
    DOMAIN cp_features = CpKeys =>
        LET f   == cp_features
            sum == 25 * f.pain_score
                   + 10 * FeverStep(f.fever) + 10 * SwellingStep(f.swelling)
                   + 10 * WoundStep(f.wound_status) + 10 * TrendStep(f.pain_trend)
                   + (IF f.mobility <= 2 THEN 50 ELSE 0)
                   - 8 * f.medication_adherence
        IN  /\ cp_ret.probability =
                   (IF sum < 0 THEN 0 ELSE IF sum > 1000 THEN 1000 ELSE sum)
            /\ (/\ f.pain_score = 10 /\ f.fever = 986 /\ f.swelling = "None"
                /\ f.wound_status = "Clean/Healing" /\ f.pain_trend = "Stable"
                /\ f.mobility = 8 /\ f.medication_adherence = 10)
               => cp_ret.probability = 190

\* the example of the claim has been computed
C11_Witness ==
    /\ cp_features = [pain_score |-> 10, fever |-> 986, swelling |-> "None",
                      wound_status |-> "Clean/Healing", pain_trend |-> "Stable",
                      mobility |-> 8, medication_adherence |-> 10]
    /\ cp_ret.probability = 190

Bands == <<"Very Low", "Low", "Moderate", "High", "Critical">>

BandRank(category) == CHOOSE i \in 1..5 : Bands[i] = category

\* C12: the returned category is the one band that contains the returned
\* probability: Very Low below 20, Low below 40, Moderate below 60, High
\* below 80, Critical from 80 (tenths here); and from one call to the next
\* a higher probability never comes with a lower-ranked category.
C12_CategoryBand ==
    /\ [](LET p == cp_ret.probability
               c == cp_ret.category
           IN  /\ c = "Very Low" <=> p < 200
               /\ c = "Low" <=> (200 <= p /\ p < 400)
               /\ c = "Moderate" <=> (400 <= p /\ p < 600)
               /\ c = "High" <=> (600 <= p /\ p < 800)
               /\ c = "Critical" <=> 800 <= p)
    /\ [][cp_ret'.probability >= cp_ret.probability =>
              BandRank(cp_ret'.category) >= BandRank(cp_ret.category)]_vars

\* a probability exactly on the 20.0 boundary has been returned as Low
C12_Witness ==
    /\ cp_ret.probability = 200
    /\ cp_ret.category = "Low"

----------------------------------------------------------------------------
(* Claims C13-C14: analyze_pain_pattern (SpecPain) *)

\* the analysed window: the pain scores of the last 7 entries at most
Window == LET w == LastN(pain_logs, 7)
          IN  [i \in 1..Len(w) |-> w[i].pain_score]

\* the number of consecutive differences of s that satisfy Test
StepCount(s, Test(_)) == Cardinality({i \in 1..(Len(s) - 1) : Test(s[i + 1] - s[i])})

\* the classifier of the claim; trend_diff is a mean difference, so it is
\* compared through 3 * trend_diff when three points exist
ClaimedPattern(s) ==
    LET n          == Len(s)
        three      == n >= 3
        d          == IF three THEN SumSeq(LastN(s, 3)) - SumSeq(FirstN(s, 3))
                      ELSE s[n] - s[1]
        unit       == IF three THEN 3 ELSE 1
        increasing == StepCount(s, LAMBDA x : x > 0)
        decreasing == StepCount(s, LAMBDA x : x < 0)
        stable     == StepCount(s, LAMBDA x : x = 0)
    IN  CASE d <= -2 * unit /\ decreasing >= increasing -> "Steady Improvement"
          [] ~(d <= -2 * unit /\ decreasing >= increasing)
             /\ d >= 2 * unit /\ increasing >= decreasing -> "Worsening Trend"
          [] ~(d <= -2 * unit /\ decreasing >= increasing)
             /\ ~(d >= 2 * unit /\ increasing >= decreasing)
             /\ -unit <= d /\ d <= unit /\ stable >= 2 -> "Plateau"
          [] ~(d <= -2 * unit /\ decreasing >= increasing)
             /\ ~(d >= 2 * unit /\ increasing >= decreasing)
             /\ ~(-unit <= d /\ d <= unit /\ stable >= 2)
             /\ increasing > 0 /\ decreasing > 0 -> "Fluctuating"
          [] OTHER -> "Early Recovery"

\* C13: analyze_pain_pattern returns Insufficient Data for fewer than 2
\* entries and otherwise the first matching pattern of the cascade over
\* the last <= 7 pain scores, with trend_diff = mean(last 3) - mean(first 3)
\* when 3 points exist and last - first otherwise; [8,7,6,5,4,3,2] gives
\* Steady Improvement with trend improving.
C13_Classifier ==
    /\ Len(pain_logs) < 2 => pain_ret.pattern = "Insufficient Data"
    /\ Len(pain_logs) >= 2 => pain_ret.pattern = ClaimedPattern(Window)
    /\ Window = <<8, 7, 6, 5, 4, 3, 2>> =>
           pain_ret.pattern = "Steady Improvement" /\ pain_ret.trend = "improving"

\* C14: for a history of at least 2 entries the result reports the index
\* (1-based day position in the analysed window) of the peak pain score and
\* of the best (lowest) pain score, together with the average of the
\* analysed scores.
C14_ReportsIndex ==
    Len(pain_logs) >= 2 =>
        /\ "peak_day" \in DOMAIN pain_ret
        /\ "best_day" \in DOMAIN pain_ret
        /\ pain_ret.peak_day = IndexOf(Window, MaxOf(Window))
        /\ pain_ret.best_day = IndexOf(Window, MinOf(Window))
        /\ "average" \in DOMAIN pain_ret
        /\ pain_ret.average = RoundTenths(SumSeq(Window), Len(Window))

----------------------------------------------------------------------------
(* Claim C15: predict_recovery_days (SpecDays) *)

\* the baseline and multiplier tables of the claim
Baseline(pathway) ==
    CASE pathway = "Minor Surgery" -> 14
      [] pathway = "Orthopedic Surgery" -> 60
      [] pathway = "General Discharge" -> 21
      [] pathway = "Injury Recovery" -> 30
      [] pathway = "Stroke Rehab" -> 90
      [] OTHER -> 30

\* 1.0 / 1.3 / 1.6 / 2.0 as tenths
RiskMultiplier10(risk) ==
    CASE risk = "Moderate" -> 13
      [] risk = "High" -> 16
      [] risk = "Critical" -> 20
      [] OTHER -> 10

\* C15: estimated_total_days = trunc(baseline * risk_multiplier *
\* (1 + pain_score/10*0.5) * (1 - mobility/10*0.3)), that is
\* baseline * multiplier10 * (20 + pain_score) * (100 - 3*mobility) over
\* 20000 rounded towards zero, and days_remaining = max(0, estimated_total_days -
\* days_post); Orthopedic Surgery, Low, pain 0, mobility 10 gives 42, and
\* with days_post 21 remaining 21, progress_pct 50.0 and Halfway there.
C15_RecoveryDays ==
    LET a     == rd_args
        x     == Baseline(a.surgery_type) * RiskMultiplier10(a.risk_level)
                 * (20 + a.pain_score) * (100 - 3 * a.mobility)
        total == IF x >= 0 THEN x \div 20000 ELSE -((-x) \div 20000)
    IN  /\ rd_ret.estimated_total_days = total
        /\ rd_ret.days_remaining =
               (IF total - a.days_post > 0 THEN total - a.days_post ELSE 0)
        /\ (/\ a.surgery_type = "Orthopedic Surgery" /\ a.risk_level = "Low"
            /\ a.pain_score = 0 /\ a.mobility = 10)
           => /\ rd_ret.estimated_total_days = 42
              /\ a.days_post = 21 =>
                     /\ rd_ret.days_remaining = 21
                     /\ rd_ret.progress_pct = 500
                     /\ rd_ret.milestone = "Halfway there"

----------------------------------------------------------------------------
(* Claim C16: get_daily_tip (SpecTip) *)

\* C16: the tip returned is the one at index days_post mod len(tips) of the
\* pathway's list (the General Discharge list for an unknown pathway), an
\* index within the list for every integer days_post, so that the tip of
\* day d is the tip of day d + len(tips); and urgency_note is non-empty
\* exactly when risk_level is High or Critical.
C16_DailyTip ==
    LET a    == tip_args
        tips == IF a.surgery_type \in DOMAIN HEALTH_TIPS
                THEN HEALTH_TIPS[a.surgery_type]
                ELSE HEALTH_TIPS["General Discharge"]
        n    == Len(tips)
        \* days_post mod n: the remainder r in 0..n-1 with days_post = q*n + r
        r    == CHOOSE x \in 0..(n - 1) : \E q \in -20..20 : a.days_post = q * n + x
    IN  /\ r \in 0..(n - 1)
        /\ tip_ret.title = tips[r + 1]
        /\ tip_ret.title =
               get_daily_tip(a.surgery_type, a.days_post + n, a.risk_level).title
        /\ tip_ret.urgency_note # "" <=> a.risk_level \in {"High", "Critical"}

\* a tip has been returned for a negative day count, for an unknown
\* pathway, with an urgency note
C16_Witness ==
    /\ tip_args.days_post = -1
    /\ tip_args.surgery_type = "Cardiac Surgery"
    /\ tip_args.risk_level = "High"
    /\ tip_ret.title = "Mental Health"
    /\ tip_ret.urgency_note # ""

----------------------------------------------------------------------------
(* Claims C17-C18: get_rehab_plan and get_recovery_score (SpecPlan) *)

Pathways == {"Minor Surgery", "Orthopedic Surgery", "General Discharge",
             "Injury Recovery", "Stroke Rehab"}

RiskTiers == {"Low", "Moderate", "High", "Critical"}

\* C17: the plan returned by get_rehab_plan(pathway, risk, days) is the
\* static table cell [pathway][risk], with the General Discharge row for a
\* pathway that is not one of the five and the Low column for a risk that
\* is not one of the four tiers, plus recovery_phase and phase_note chosen
\* by days alone: days <= 7, <= 21, <= 42, > 42.
C17_TableCell ==
    pure_call.fn = "get_rehab_plan" =>
        LET a    == pure_call.args
            row  == IF a.surgery_type \in Pathways
                    THEN a.surgery_type ELSE "General Discharge"
            col  == IF a.risk_level \in RiskTiers THEN a.risk_level ELSE "Low"
            cell == REHAB_PLANS_literal[row][col]
            d    == a.days_post_surgery
        IN  /\ DOMAIN pure_ret = DOMAIN cell \cup {"recovery_phase", "phase_note"}
            /\ \A k \in DOMAIN cell : pure_ret[k] = cell[k]
            /\ d <= 7 => pure_ret.recovery_phase = "Acute Phase (Days 1-7)"
            /\ (7 < d /\ d <= 21) => pure_ret.recovery_phase = "Sub-Acute Phase (Days 8-21)"
            /\ (21 < d /\ d <= 42) =>
                   pure_ret.recovery_phase = "Functional Recovery (Days 22-42)"
            /\ d > 42 => pure_ret.recovery_phase = "Return to Activity (Day 42+)"
            /\ \A b \in PlanArgs :
                   b.days_post_surgery = d =>
                       /\ get_rehab_plan(REHAB_PLANS_literal, b.surgery_type, b.risk_level,
                                         d).ret.recovery_phase = pure_ret.recovery_phase
                       /\ get_rehab_plan(REHAB_PLANS_literal, b.surgery_type, b.risk_level,
                                         d).ret.phase_note = pure_ret.phase_note

\* a plan has been returned through both fallbacks on the last day of the
\* sub-acute phase
C17_Witness ==
    /\ pure_call.fn = "get_rehab_plan"
    /\ pure_call.args = [surgery_type |-> "Cardiac Surgery", risk_level |-> "Unknown",
                         days_post_surgery |-> 21]
    /\ pure_ret.goals = "Gradual return to daily activities over 2-4 weeks"
    /\ pure_ret.recovery_phase = "Sub-Acute Phase (Days 8-21)"

\* C18: after any sequence of calls, a call of get_rehab_plan or of
\* get_recovery_score returns what the same call returns on the freshly
\* imported module (so two calls with identical inputs return identical
\* results), REHAB_PLANS is as it was at import, and the list passed to
\* get_recovery_score is as it was passed.
C18_Pure ==
    /\ REHAB_PLANS = REHAB_PLANS_literal
    /\ pure_call.fn = "get_rehab_plan" =>
           pure_ret = get_rehab_plan(REHAB_PLANS_literal, pure_call.args.surgery_type,
                                     pure_call.args.risk_level,
                                     pure_call.args.days_post_surgery).ret
    /\ pure_call.fn = "get_recovery_score" =>
           /\ pure_ret = get_recovery_score(pure_call.args)
           /\ caller_logs = pure_call.args

\* get_rehab_plan has returned a plan with its overlay after an earlier
\* call of get_recovery_score on a two-entry list, and the table cell it
\* copied has no overlay key
C18_Witness ==
    /\ pure_call.fn = "get_rehab_plan"
    /\ "recovery_phase" \in DOMAIN pure_ret
    /\ Len(caller_logs) = 2
    /\ \A p \in DOMAIN REHAB_PLANS : \A r \in DOMAIN REHAB_PLANS[p] :
           "recovery_phase" \notin DOMAIN REHAB_PLANS[p][r]

----------------------------------------------------------------------------
(* Claim C19: the feature encoding of predict_risk (SpecEnc) *)

\* the code of the claim for a category key and the value the dict has for
\* it (NoValue when the dict has no such key)
NoValue == "<missing>"

ClaimedCode(k, v) ==
    CASE k = "swelling" ->
             (CASE v = "None" -> 0 [] v = "Mild" -> 1 [] v = "Moderate" -> 2
                [] v = "Severe" -> 3 [] OTHER -> 0)
      [] k = "wound_status" ->
             (CASE v = "Clean/Healing" -> 0 [] v = "Redness" -> 1
                [] v = "Discharge/Open" -> 2 [] OTHER -> 0)
      [] k = "surgery_type" ->
             (CASE v = "Minor Surgery" -> 0 [] v = "Orthopedic Surgery" -> 1
                [] v = "General Discharge" -> 2 [] v = "Injury Recovery" -> 3
                [] v = "Stroke Rehab" -> 4 [] OTHER -> 2)
      [] k = "pain_trend" ->
             (CASE v = "Improving" -> -1 [] v = "Stable" -> 0
                [] v = "Worsening" -> 1 [] OTHER -> 0)

\* the position of a category key in the row
RowIndex(k) == CHOOSE i \in 1..Len(RowKeys) : RowKeys[i] = k

\* C19: the encoding is total: no error is raised, every valid value of
\* swelling, wound_status, surgery_type and pain_trend gets its one code,
\* and an unknown or missing value gets the default code (swelling 0,
\* wound 0, care pathway 2, trend 0).
C19_EncodingTotal ==
    /\ enc_ret.raised = PyNone
    /\ \A k \in EncKeys :
           enc_ret.X[RowIndex(k)] = ClaimedCode(k, Get(enc_features, k, NoValue))

----------------------------------------------------------------------------
(* Claim C20: the label rule of generate_dataset (SpecLabel) *)

\* C20: with the other eight features of a row held fixed, a fever raised
\* within 98..104 never lowers the label: the label of the row is at most
\* the label of the same row with any higher fever.
C20_FeverMonotone ==
    \A fever2 \in LabValues.fever :
        (980 <= lab_row.fever /\ lab_row.fever <= fever2 /\ fever2 <= 1040) =>
            lab_risk <= risk_label([lab_row EXCEPT !.fever = fever2])

\* the row is labelled High by the last rule of the cascade (mobility <= 2
\* and days_post_surgery > 14), none of the rules before it applying
ByLowMobilityRule(row) ==
    /\ risk_label(row) = 2
    /\ ~(row.pain_score >= 8 \/ row.swelling = 3)

\* C20, amended: with the other eight features held fixed, a fever raised
\* within 98..104 never lowers the label of a row, unless the row is
\* labelled High by the low-mobility rule; in particular it never lowers
\* the label of a row that is Low or Moderate.
C20_FeverMonotoneBoundary ==
    ~ByLowMobilityRule(lab_row) =>
        \A fever2 \in LabValues.fever :
            (980 <= lab_row.fever /\ lab_row.fever <= fever2 /\ fever2 <= 1040) =>
                lab_risk <= risk_label([lab_row EXCEPT !.fever = fever2])

\* a row that is Moderate below 100.4 by the worsening-trend rule has been
\* labelled at 100.4, where the fever rule takes over, and is still Moderate
C20_Witness ==
    /\ lab_row.fever = 1004
    /\ lab_risk = 1
    /\ lab_row.pain_score = 5 /\ lab_row.pain_trend = 1
    /\ lab_row.mobility <= 2 /\ lab_row.days_post_surgery > 14
    /\ risk_label([lab_row EXCEPT !.fever = 980]) = 1

----------------------------------------------------------------------------
(* Claim C21: the dict predict_risk returns (SpecPredict) *)

SumOf(d) == d["Low"] + d["Moderate"] + d["High"] + d["Critical"]

\* C21: predict_risk returns a risk_index in 0..3, the label of that index
\* as risk_level, one percentage per class, each the class's estimate rounded
\* to one decimal, adding up to 100 +- 0.5, and as confidence the entry of
\* the returned risk_level, which no other entry exceeds.
C21_PredictOutput ==
    /\ rf_ret.risk_index \in 0..3
    /\ rf_ret.risk_level = RISK_LABELS[rf_ret.risk_index]
    /\ DOMAIN rf_ret.probabilities = {"Low", "Moderate", "High", "Critical"}
    /\ \A i \in 0..3 :
          LET v == rf_ret.probabilities[RISK_LABELS[i]]
              d == v * rf_den - 1000 * rf_proba[i]
          IN  2 * d <= rf_den /\ 2 * d >= -rf_den
    /\ SumOf(rf_ret.probabilities) \in 995..1005
    /\ rf_ret.confidence = rf_ret.probabilities[rf_ret.risk_level]
    /\ \A l \in DOMAIN rf_ret.probabilities :
          rf_ret.probabilities[l] <= rf_ret.confidence

\* two classes share the highest estimate and the rounded percentages do not
\* add up to 100.0
C21_Witness ==
    /\ \E i, j \in 0..3 : i # j /\ rf_proba[i] = rf_proba[j]
                          /\ \A k \in 0..3 : rf_proba[k] <= rf_proba[i]
    /\ SumOf(rf_ret.probabilities) # 1000
    /\ rf_ret.confidence = rf_ret.probabilities[rf_ret.risk_level]

----------------------------------------------------------------------------
(* Claim C23: the train-once bootstrap of load_model (SpecBoot) *)

\* C23: starting without risk_model.pkl, in every interleaving of
\* predict_risk calls train_and_save is executed exactly once, before the
\* first result is returned, and every other load_model call loads the
\* saved model.
C23_TrainOnce ==
    /\ trained <= 1
    /\ (\E t \in BootThreads : boot_ret[t] = "result") => trained = 1
    /\ \A t \in BootThreads : boot_ret[t] # "EOFError"

----------------------------------------------------------------------------
(* Claim C22: the /ai endpoints for a patient without reports (SpecAi) *)

AuxOps == {"recovery_prediction", "complication_risk", "pain_pattern", "daily_tip"}

\* the defined neutral result of a computation that has nothing to work on
IsAbsence(r) ==
    /\ r.status = 200
    /\ "pattern" \in DOMAIN r.result
    /\ r.result.pattern = "Insufficient Data"

\* C22: for a registered patient whose log history is empty, each of the
\* complication-risk, pain-pattern, recovery-prediction and daily-tip
\* endpoints answers with an error or with the neutral absence result, never
\* with a value computed from symptom values that were not reported.
C22_NoGuessing ==
    ( /\ call.op \in AuxOps
      /\ call.patient_id \in DOMAIN db.patients
      /\ db.logs[call.patient_id] = <<>> )
    => (resp.status >= 400 \/ IsAbsence(resp))

----------------------------------------------------------------------------
(* Claims C24, C27, C29, C30: submit_daily_log and the store (Spec) *)

\* a history without its latest entry
Front(h) == SubSeq(h, 1, Len(h) - 1)

\* C24: submit_daily_log appends the new entry to the patient's history
\* before it evaluates check_alerts and get_recovery_score: both are
\* evaluated on the history whose latest entry is the report just submitted.
C24_AppendThenScore ==
    [][ (call'.op = "submit_daily_log" /\ resp'.status = 200) =>
            LET p == call'.patient_id
                h == db'.logs[p]
            IN  /\ Front(h) = db.logs[p]
                /\ Last(h).risk_index = resp'.risk.risk_index
                /\ resp'.recovery_score = get_recovery_score(h)
                /\ resp'.alerts_triggered = check_alerts(h, db.patients[p], resp'.risk) ]_vars

\* a third report [3,5,7]: on the history before it neither the score nor
\* the alerts would be the ones returned
C24_Witness ==
    /\ call.op = "submit_daily_log"
    /\ resp.status = 200
    /\ LET h == db.logs[call.patient_id]
       IN  /\ Len(h) = 3
           /\ resp.recovery_score # get_recovery_score(Front(h))
           /\ "ESCALATION" \in TypesIn(resp.alerts_triggered)
           /\ "ESCALATION" \notin
                  TypesIn(check_alerts(Front(h), db.patients[call.patient_id], resp.risk))

\* C27: a submit_daily_log whose patient_id is not registered is answered
\* with 404 "Patient not found" and leaves the store as it was: no log, no
\* alert and no write.
C27_UnknownPatient ==
    [][ (call'.op = "submit_daily_log" /\ call'.patient_id \notin DOMAIN db.patients)
            => /\ resp' = [status |-> 404, detail |-> "Patient not found"]
               /\ db' = db ]_vars

\* the 404 answer on a store that holds patients, reports and alerts
C27_Witness ==
    /\ call.op = "submit_daily_log"
    /\ call.patient_id = UnknownPid
    /\ resp.status = 404
    /\ DOMAIN db.patients = PIDs
    /\ TotalReports(db) >= 2
    /\ db.alerts # <<>>
    /\ UnknownPid \notin DOMAIN db.logs

\* the plan is the Critical-tier cell of its pathway
IsCriticalPlan(plan, surgery_type) ==
    LET pathway == IF surgery_type \in DOMAIN REHAB_PLANS_literal
                   THEN surgery_type ELSE "General Discharge"
        cell    == REHAB_PLANS_literal[pathway]["Critical"]
    IN  \A k \in DOMAIN cell : plan[k] = cell[k]

\* C29: in every stored log entry and every submit_daily_log response the
\* risk_level is the label of the risk_index, and the response holds a
\* CRITICAL alert iff its rehab plan is the Critical-tier plan of the
\* patient's pathway.
C29_LabelIndexAgree ==
    /\ \A p \in DOMAIN db.logs : \A i \in DOMAIN db.logs[p] :
           db.logs[p][i].risk_level = RISK_LABELS[db.logs[p][i].risk_index]
    /\ (call.op = "submit_daily_log" /\ resp.status = 200) =>
           /\ resp.risk.risk_level = RISK_LABELS[resp.risk.risk_index]
           /\ "CRITICAL" \in TypesIn(resp.alerts_triggered)
              <=> IsCriticalPlan(resp.rehab_plan,
                                 db.patients[call.patient_id].surgery_type)

\* a Critical report after a High one of the same patient: the alert and
\* the Critical plan come together
C29_Witness ==
    /\ call.op = "submit_daily_log"
    /\ resp.status = 200
    /\ Len(db.logs[call.patient_id]) = 2
    /\ db.logs[call.patient_id][1].risk_level = "High"
    /\ resp.risk.risk_index = 3
    /\ "CRITICAL" \in TypesIn(resp.alerts_triggered)
    /\ resp.rehab_plan.goals = "Immediate emergency evaluation"

\* C30: from the empty store, after any sequence of register_patient and
\* submit_daily_log the ids that have a log list are exactly the registered
\* ids, and a registration gives the new patient an empty list.
C30_LogListPerPatient ==
    /\ [](DOMAIN db.logs = DOMAIN db.patients)
    /\ [][ call'.op = "register_patient" =>
               /\ call'.patient_id \notin DOMAIN db.patients
               /\ DOMAIN db'.patients = DOMAIN db.patients \cup {call'.patient_id}
               /\ db'.logs[call'.patient_id] = <<>> ]_vars

\* a second patient registered after the first has reported
C30_Witness ==
    /\ call.op = "register_patient"
    /\ DOMAIN db.patients = PIDs
    /\ DOMAIN db.logs = PIDs
    /\ db.logs[call.patient_id] = <<>>
    /\ \E p \in PIDs : Len(db.logs[p]) >= 2

----------------------------------------------------------------------------
(* Claim C25: the label cascade of generate_dataset (SpecLabel) *)

\* the six rules of the claim, in priority order: <<condition, label>>
CascadeRules(row) ==
    << <<row.fever >= 1015 \/ row.wound_status = 2, 3>>,
       <<row.pain_score >= 8 \/ row.swelling = 3, 2>>,
       <<row.pain_score >= 6 \/ row.swelling = 2 \/ row.fever >= 1004, 1>>,
       <<row.pain_trend = 1 /\ row.pain_score >= 5, 1>>,
       <<row.mobility <= 2 /\ row.days_post_surgery > 14, 2>>,
       <<TRUE, 0>> >>

\* the number of the first rule whose condition holds
FirstMatch(rules) ==
    CHOOSE i \in DOMAIN rules : rules[i][1] /\ \A j \in 1..(i - 1) : ~rules[j][1]

\* C25: the label generate_dataset gives a row is the label of the first
\* rule of the cascade (1)-(6) that matches the row; the low-mobility rule 5
\* gives High only to rows that rules 1-4 do not match.
C25_FirstMatch ==
    LET rules == CascadeRules(lab_row)
        m     == FirstMatch(rules)
    IN  /\ lab_risk = rules[m][2]
        /\ rules[5][1] =>
              (lab_risk = 2 /\ ~rules[2][1]) <=> (\A j \in 1..4 : ~rules[j][1])

\* a row rule 5 matches and rule 3 matches first: it is labelled Moderate
C25_Witness ==
    /\ lab_row.mobility <= 2
    /\ lab_row.days_post_surgery > 14
    /\ lab_row.fever = 1004
    /\ lab_row.pain_score = 3
    /\ lab_row.swelling = 0
    /\ lab_row.wound_status = 0
    /\ lab_risk = 1

----------------------------------------------------------------------------
(* Claim C26: the progress of predict_recovery_days (SpecDays) *)

\* the milestone of the breakpoints 90 / 70 / 50 / 25, progress in tenths
MilestoneOf(progress) ==
    CASE progress >= 900 -> "Almost fully recovered!"
      [] progress < 900 /\ progress >= 700 -> "Great progress"
      [] progress < 700 /\ progress >= 500 -> "Halfway there"
      [] progress < 500 /\ progress >= 250 -> "Early recovery"
      [] progress < 250 -> "Just started"

\* C26: predict_recovery_days divides only by a positive estimated_total:
\* progress_pct is min(100, round(100 * days_post / estimated_total, 1)) when
\* estimated_total > 0 and 100 otherwise, so it never exceeds 100 and is in
\* [0,100] for days_post >= 0; the milestone follows the breakpoints
\* 90 / 70 / 50 / 25 of progress_pct.
C26_ProgressBounded ==
    LET total    == rd_ret.estimated_total_days
        progress == rd_ret.progress_pct
    IN  /\ total > 0 =>
              \/ progress = 1000 /\ 2 * (1000 * rd_args.days_post) >= 1999 * total
              \/ /\ progress < 1000
                 /\ 2 * (progress * total - 1000 * rd_args.days_post) <= total
                 /\ 2 * (progress * total - 1000 * rd_args.days_post) >= -total
        /\ total <= 0 => progress = 1000
        /\ progress <= 1000
        /\ rd_args.days_post >= 0 => progress \in 0..1000
        /\ rd_ret.milestone = MilestoneOf(progress)

\* a call on the day of surgery whose estimated_total is 0: 0 / 0 is not
\* evaluated and the progress is 100
C26_Witness ==
    /\ rd_ret.estimated_total_days = 0
    /\ rd_args.days_post = 0
    /\ rd_args.mobility = 33
    /\ rd_ret.progress_pct = 1000
    /\ rd_ret.milestone = "Almost fully recovered!"

----------------------------------------------------------------------------
(* Claim C28: analyze_pain_pattern on a 3-entry history (SpecPain) *)

\* C28: when the window holds exactly 3 pain scores its first 3 and its last
\* 3 scores are the same, trend_diff is 0 and the pattern is neither Steady
\* Improvement nor Worsening Trend; the rising history [3,5,7], for which
\* check_alerts raises ESCALATION, is classified Early Recovery.
C28_ThreeEntries ==
    Len(pain_logs) = 3 =>
        /\ FirstN(Window, 3) = LastN(Window, 3)
        /\ pain_ret.scores = Window
        /\ pain_ret.pattern \notin {"Steady Improvement", "Worsening Trend"}
        /\ pain_ret.trend \notin {"improving", "worsening"}
        /\ Window = <<3, 5, 7>> =>
              /\ pain_ret.pattern = "Early Recovery"
              /\ \A ri \in 0..3 :
                    "ESCALATION" \in
                        TypesIn(check_alerts(pain_logs, FnPatient, predict_risk(EmptyDict, ri)))

\* the history [3,5,7] analysed
C28_Witness ==
    /\ Len(pain_logs) = 3
    /\ Window = <<3, 5, 7>>
    /\ pain_ret.pattern = "Early Recovery"
    /\ pain_ret.trend = "early"

====
